---- MODULE Spec2Model ----
(***************************************************************************)
(* A model of projectdiscovery/ratelimit: the Windowed Limiter             *)
(* (src/ratelimit.go), the auto-provisioning registry AutoLimiter          *)
(* (src/example/main.go, second file) and the strict registry MultiLimiter *)
(* (src/unnamed/part_002).                                                 *)
(*                                                                         *)
(* Every goroutine is a process: the callers (Procs) and one run goroutine *)
(* per Windowed limiter.  A step is one access to shared memory (an atomic *)
(* load/store, a sync.Map operation, a channel operation).                 *)
(***************************************************************************)
EXTENDS Integers, Sequences, FiniteSets, TLC

\* ------------------------------------------------------------------ bounds
\* Calls the callers make in one behaviour.
MaxOps == 3
\* Limiters constructed in one behaviour.
MaxLimiters == 3
\* Goroutines calling a limiter directly.
NumProcs == 2
\* Time runs up to MaxTime units on a limiter's clock.
MaxTime == 5

\* ------------------------------------------------------- program constants
\* 2^16.  TLC's integers stop at 2^31 - 1, so a uint32 (atomic.Uint32: count,
\* maxCount) is kept at full width as two 16-bit halves [hi, lo], and a uint
\* (64 bits: the max of New, MaxCount of the options) as [up, hi, lo] with up
\* the bits above the low 32.
Half == 65536
\* time.Millisecond, the unit of every duration of the model.
Millisecond == 1

\* The uint32 of a small number.
U32(n) == [hi |-> 0, lo |-> n]
\* math.MaxUint32
MaxUint32 == [hi |-> Half - 1, lo |-> Half - 1]
\* var minusOne = ^uint32(0)
minusOne == [hi |-> Half - 1, lo |-> Half - 1]
\* The uint up * 2^32 + n, n small.
Uint(up, n) == [up |-> up, hi |-> 0, lo |-> n]
\* uint32(x) of a uint: the low 32 bits.
Uint32(x) == [hi |-> x.hi, lo |-> x.lo]
\* uint(c) of a uint32.
UintOf(c) == [up |-> 0, hi |-> c.hi, lo |-> c.lo]
\* x == 0, of a uint32 or a uint.
IsZero(x) == \A f \in DOMAIN x : x[f] = 0
\* atomic.Uint32.Add: addition modulo 2^32.
Add32(a, b) ==
    [hi |-> (a.hi + b.hi + ((a.lo + b.lo) \div Half)) % Half,
     lo |-> (a.lo + b.lo) % Half]
\* n <= c for a small number n and a uint32 c.
AtMost(n, c) == c.hi > 0 \/ n <= c.lo

Procs == 1..NumProcs
\* The goroutines calling a registry: one (calls in sequence) or two (racing).
OneCaller == {1}
TwoCallers == {1, 2}
\* Registry keys.
Keys == {"a", "b"}
\* The counts callers pass (uint): 0, 1, 2 and 2^32, whose low 32 bits are zero.
Counts == {Uint(0, 0), Uint(0, 1), Uint(0, 2), Uint(1, 0)}

VARIABLES
    lims,      \* the Limiter objects constructed so far, by address 1..Len(lims)
    hist,      \* per limiter: history the claims speak of (no program state)
    proc,      \* per caller: its position in the call it is making, and its locals
    ops,       \* calls made so far
    ctxDone,   \* the context handed to New / to the registry is cancelled
    crashed,   \* a goroutine panicked: the program is gone
    kind,      \* what the program constructed: "limiter", "auto" (AutoLimiter), "multi"
               \* (MultiLimiter on a sync.Map) or "map" (MultiLimiter on a plain map)
    limiters,  \* the registry's limiters map: key -> address, 0 when absent
    options,   \* AutoLimiter.options sync.Map: key -> <<options>>, <<>> when absent
    defaults   \* AutoLimiter.defaultOptions

regVars == <<kind, limiters, options, defaults>>
vars == <<lims, hist, proc, ops, ctxDone, crashed, regVars>>

\* ----------------------------------------------------------------- Limiter
\* time.NewTicker(d) and (*Ticker).Reset(d) panic unless d > 0.
TickerPanics(d) == d <= 0

\* New: count and maxCount start at uint32(max); the ticker has period
\* duration and an empty channel, and fires first one period from now; run
\* starts at the top of its loop.  clock is the time since New.
New(max, duration) ==
    [maxCount |-> Uint32(max), interval |-> duration, count |-> Uint32(max),
     period |-> duration, tickC |-> 0, tickStopped |-> FALSE,
     tokensClosed |-> FALSE, cancelled |-> FALSE, run |-> "check", m |-> U32(0),
     clock |-> 0, nextTick |-> duration]

\* A slip: the counter of an unlimited limiter is not stored.
NewUnlimitedEmpty ==
    [maxCount |-> MaxUint32, interval |-> 0, count |-> U32(0),
     period |-> Millisecond, tickC |-> 0, tickStopped |-> FALSE,
     tokensClosed |-> FALSE, cancelled |-> FALSE, run |-> "check", m |-> U32(0),
     clock |-> 0, nextTick |-> Millisecond]

\* NewUnlimited: the interval field stays zero, the ticker has 1ms.
NewUnlimited ==
    [maxCount |-> MaxUint32, interval |-> 0, count |-> MaxUint32,
     period |-> Millisecond, tickC |-> 0, tickStopped |-> FALSE,
     tokensClosed |-> FALSE, cancelled |-> FALSE, run |-> "check", m |-> U32(0),
     clock |-> 0, nextTick |-> Millisecond]

\* What the claims count per limiter: hand-outs (sends on tokens), counter
\* decrements, Take() calls returned, Take() calls returned since the last
\* reset of the counter, whether SetLimit was called, the registry key the
\* limiter was constructed for, whether a Remove of that key has returned
\* since, the limiter's clock when Limiter.Take was first called on it
\* (-1 before), and what SetLimit was last called with.
NewHist(k) ==
    [handed |-> 0, decs |-> 0, completed |-> 0, window |-> 0,
     limitSet |-> FALSE, key |-> k, removed |-> FALSE, first |-> -1,
     limit |-> Uint(0, 0)]

Addrs == 1..Len(lims)

NoCfg == [unl |-> FALSE, max |-> Uint(0, 0), dur |-> 0]

\* A caller between calls.  op and res keep the last call and what it returned;
\* key, cfg, lim, n, i and todo are the locals of the call in progress.  seen
\* is history, kept for a Keys call: the key sets the map has held since the
\* call began.
Idle ==
    [pc |-> "idle", op |-> "none", res |-> "none", key |-> "", keys |-> {},
     cfg |-> NoCfg, lim |-> 0, n |-> 0, i |-> 0, todo |-> {}, seen |-> {}]

\* Caller p returns r from call o; what it was called with stays on record.
Return(p, o, r) ==
    [proc EXCEPT ![p] = [Idle EXCEPT !.op = o, !.res = r, !.key = proc[p].key,
                                     !.keys = proc[p].keys]]

\* A call may start: the caller is between calls and the program is alive.
CanCall(p) == ~crashed /\ proc[p].pc = "idle" /\ ops < MaxOps

\* A slip: the decrement left out.
AddMinusOneSkipped(c) == c

\* limiter.count.Add(minusOne) on a 32-bit counter.
AddMinusOne(c) == Add32(c, minusOne)

\* A slip: run returns without closing the channel.
ExitNoClose(lim) == [lim EXCEPT !.tickStopped = TRUE, !.run = "done"]

\* run returns: limiter.ticker.Stop(), and the deferred close(limiter.tokens).
Exit(lim) == [lim EXCEPT !.tickStopped = TRUE, !.tokensClosed = TRUE, !.run = "done"]

\* run, top of the loop: limiter.count.Load() == 0
RunCheck(l) ==
    /\ ~crashed
    /\ lims[l].run = "check"
    /\ lims' = [lims EXCEPT ![l].run = IF IsZero(lims[l].count) THEN "wait" ELSE "select"]
    /\ UNCHANGED <<hist, proc, ops, ctxDone, crashed, regVars>>

\* A slip: the tick is received and the counter is left at zero.
RunWaitTickLost(l) ==
    /\ ~crashed
    /\ lims[l].run = "wait"
    /\ lims[l].tickC = 1
    /\ lims' = [lims EXCEPT ![l].tickC = 0]
    /\ UNCHANGED <<hist, proc, ops, ctxDone, crashed, regVars>>

\* run, counter at zero: <-limiter.ticker.C, then limiter.maxCount.Load().
\* Nothing else is looked at here, the contexts included.
RunWaitTick(l) ==
    /\ ~crashed
    /\ lims[l].run = "wait"
    /\ lims[l].tickC = 1
    /\ lims' = [lims EXCEPT ![l].tickC = 0, ![l].m = lims[l].maxCount,
                            ![l].run = "storeW"]
    /\ UNCHANGED <<hist, proc, ops, ctxDone, crashed, regVars>>

\* run: limiter.count.Store(<the maxCount loaded>), at the top of the loop
\* (then on to the select) or in the select's ticker case (then back to the top).
RunStore(l) ==
    /\ ~crashed
    /\ lims[l].run \in {"storeW", "storeS"}
    /\ lims' = [lims EXCEPT ![l].count = lims[l].m, ![l].m = U32(0),
                            ![l].run = IF lims[l].run = "storeW" THEN "select"
                                       ELSE "check"]
    /\ hist' = [hist EXCEPT ![l].window = 0]
    /\ UNCHANGED <<proc, ops, ctxDone, crashed, regVars>>

\* A slip: the select does not look at the context given to New.
RunDoneOwnContext(l) ==
    /\ ~crashed
    /\ lims[l].run = "select"
    /\ lims[l].cancelled
    /\ lims' = [lims EXCEPT ![l] = Exit(lims[l])]
    /\ UNCHANGED <<hist, proc, ops, ctxDone, crashed, regVars>>

\* run, select: case <-ctx.Done() or case <-limiter.ctx.Done():
\* limiter.ticker.Stop(); return, and the deferred close(limiter.tokens).
RunDone(l) ==
    /\ ~crashed
    /\ lims[l].run = "select"
    /\ lims[l].cancelled \/ ctxDone
    /\ lims' = [lims EXCEPT ![l] = Exit(lims[l])]
    /\ UNCHANGED <<hist, proc, ops, ctxDone, crashed, regVars>>

\* run, select: case limiter.tokens <- struct{}{} meets caller p's
\* <-limiter.tokens (the channel is unbuffered); p's Take returns.
RunSend(l, p) ==
    /\ ~crashed
    /\ lims[l].run = "select"
    /\ proc[p].pc = "take" /\ proc[p].lim = l
    /\ lims' = [lims EXCEPT ![l].run = "dec"]
    /\ proc' = Return(p, proc[p].op, "permit")
    /\ hist' = [hist EXCEPT ![l].handed = @ + 1, ![l].completed = @ + 1,
                            ![l].window = @ + 1]
    /\ UNCHANGED <<ops, ctxDone, crashed, regVars>>

\* run, after the send: limiter.count.Add(minusOne)
RunDec(l) ==
    /\ ~crashed
    /\ lims[l].run = "dec"
    /\ lims' = [lims EXCEPT ![l].count = AddMinusOne(lims[l].count),
                            ![l].run = "check"]
    /\ hist' = [hist EXCEPT ![l].decs = @ + 1]
    /\ UNCHANGED <<proc, ops, ctxDone, crashed, regVars>>

\* run, select: case <-limiter.ticker.C, then limiter.maxCount.Load().
RunSelectTick(l) ==
    /\ ~crashed
    /\ lims[l].run = "select"
    /\ lims[l].tickC = 1
    /\ lims' = [lims EXCEPT ![l].tickC = 0, ![l].m = lims[l].maxCount,
                            ![l].run = "storeS"]
    /\ UNCHANGED <<hist, proc, ops, ctxDone, crashed, regVars>>

\* The ticker of limiter l fires: its channel holds one tick; a tick that finds
\* the channel full is dropped (no step).
Tick(l) ==
    /\ ~crashed
    /\ ~lims[l].tickStopped
    /\ lims[l].tickC = 0
    /\ lims' = [lims EXCEPT ![l].tickC = 1]
    /\ UNCHANGED <<hist, proc, ops, ctxDone, crashed, regVars>>

\* The run goroutine has nothing to do: it has returned, or it waits for a
\* tick that is not there, in the select also for a Take that is not there.
RunBlocked(l) ==
    \/ lims[l].run = "done"
    \/ lims[l].run = "wait" /\ lims[l].tickC = 0
    \/ /\ lims[l].run = "select" /\ lims[l].tickC = 0
       /\ ~lims[l].cancelled /\ ~ctxDone
       /\ \A p \in Procs : ~(proc[p].pc = "take" /\ proc[p].lim = l)

\* Time passes on the limiter's clock, not beyond the moment its ticker is
\* to fire, and only while the run goroutine has nothing to do (it is
\* scheduled at once).
Advance(l) ==
    /\ ~crashed
    /\ lims[l].clock < MaxTime
    /\ lims[l].tickStopped \/ lims[l].clock < lims[l].nextTick
    /\ RunBlocked(l)
    /\ lims' = [lims EXCEPT ![l].clock = @ + 1]
    /\ UNCHANGED <<hist, proc, ops, ctxDone, crashed, regVars>>

\* The ticker fires when its period has passed: a tick is put in its channel
\* (dropped when one is there) and the next one is due a period later.
TimedTick(l) ==
    /\ ~crashed
    /\ ~lims[l].tickStopped
    /\ lims[l].clock >= lims[l].nextTick
    /\ lims' = [lims EXCEPT ![l].tickC = 1, ![l].nextTick = @ + lims[l].period]
    /\ UNCHANGED <<hist, proc, ops, ctxDone, crashed, regVars>>

\* A slip: the receive does not block.
ClosedOrNot(l) == TRUE

\* <-limiter.tokens returns without a sender exactly when the channel is closed.
Closed(l) == lims[l].tokensClosed

\* Limiter.Take, the call: the caller blocks in <-limiter.tokens.
Take(p, l) ==
    /\ CanCall(p)
    /\ proc' = [proc EXCEPT ![p] = [Idle EXCEPT !.pc = "take", !.op = "Take", !.lim = l]]
    /\ hist' = [hist EXCEPT ![l].first = IF @ < 0 THEN lims[l].clock ELSE @]
    /\ ops' = ops + 1
    /\ UNCHANGED <<lims, ctxDone, crashed, regVars>>

\* <-limiter.tokens on the closed channel returns at once, no permit sent.
TakeClosed(p) ==
    /\ ~crashed
    /\ proc[p].pc = "take"
    /\ Closed(proc[p].lim)
    /\ proc' = Return(p, proc[p].op, "closed")
    /\ hist' = [hist EXCEPT ![proc[p].lim].completed = @ + 1,
                            ![proc[p].lim].window = @ + 1]
    /\ UNCHANGED <<lims, ops, ctxDone, crashed, regVars>>

\* A slip: CanTake takes the permit it sees.
CanTakeConsumes(p, l) ==
    /\ CanCall(p)
    /\ proc' = Return(p, "CanTake", IF ~IsZero(lims[l].count) THEN "true" ELSE "false")
    /\ lims' = [lims EXCEPT ![l].count = IF IsZero(@) THEN @ ELSE AddMinusOne(@)]
    /\ ops' = ops + 1
    /\ UNCHANGED <<hist, ctxDone, crashed, regVars>>

\* Limiter.CanTake: limiter.count.Load() > 0
CanTake(p, l) ==
    /\ CanCall(p)
    /\ proc' = Return(p, "CanTake", IF ~IsZero(lims[l].count) THEN "true" ELSE "false")
    /\ ops' = ops + 1
    /\ UNCHANGED <<lims, hist, ctxDone, crashed, regVars>>

\* Limiter.GetLimit: return uint(limiter.maxCount.Load()); the caller's
\* cfg.max holds what was returned.
GetLimit(p, l) ==
    /\ CanCall(p)
    /\ proc' = [Return(p, "GetLimit", "limit") EXCEPT
                  ![p].cfg.max = UintOf(lims[l].maxCount)]
    /\ ops' = ops + 1
    /\ UNCHANGED <<lims, hist, ctxDone, crashed, regVars>>

\* Limiter.SetLimit: limiter.maxCount.Store(uint32(max))
SetLimit(p, l, max) ==
    /\ CanCall(p)
    /\ lims' = [lims EXCEPT ![l].maxCount = Uint32(max)]
    /\ hist' = [hist EXCEPT ![l].limitSet = TRUE, ![l].limit = max]
    /\ proc' = Return(p, "SetLimit", "none")
    /\ ops' = ops + 1
    /\ UNCHANGED <<ctxDone, crashed, regVars>>

\* Limiter.SetDuration: limiter.interval = d; limiter.ticker.Reset(d), which
\* panics unless d > 0 and otherwise (re)starts the ticker with period d.
SetDuration(p, l, d) ==
    /\ CanCall(p)
    /\ lims' = [lims EXCEPT ![l].interval = d,
                            ![l].period = IF TickerPanics(d) THEN @ ELSE d,
                            ![l].nextTick = IF TickerPanics(d) THEN @
                                            ELSE lims[l].clock + d,
                            ![l].tickStopped = IF TickerPanics(d) THEN @ ELSE FALSE]
    /\ crashed' = TickerPanics(d)
    /\ proc' = Return(p, "SetDuration", IF TickerPanics(d) THEN "panic" ELSE "none")
    /\ ops' = ops + 1
    /\ UNCHANGED <<hist, ctxDone, regVars>>

\* Limiter.Stop: limiter.cancelFunc()
Stop(p, l) ==
    /\ CanCall(p)
    /\ lims' = [lims EXCEPT ![l].cancelled = TRUE]
    /\ proc' = Return(p, "Stop", "none")
    /\ ops' = ops + 1
    /\ UNCHANGED <<hist, ctxDone, crashed, regVars>>

\* The embedding program cancels the context it passed to New.
CancelCtx ==
    /\ ~crashed
    /\ ~ctxDone
    /\ ctxDone' = TRUE
    /\ UNCHANGED <<lims, hist, proc, ops, crashed, regVars>>

\* The steps of the run goroutines and of the tickers.
Background ==
    \/ \E l \in Addrs : RunCheck(l)
    \/ \E l \in Addrs : RunWaitTick(l)
    \/ \E l \in Addrs : RunStore(l)
    \/ \E l \in Addrs : RunDone(l)
    \/ \E l \in Addrs, p \in Procs : RunSend(l, p)
    \/ \E l \in Addrs : RunDec(l)
    \/ \E l \in Addrs : RunSelectTick(l)
    \/ \E l \in Addrs : Tick(l)
    \/ \E p \in Procs : TakeClosed(p)

\* --------------------------------------------- one limiter, used directly
\* ratelimit.New(ctx, max, duration) with max >= 0 and duration > 0 (New panics
\* otherwise), or ratelimit.NewUnlimited(ctx).
InitLimiter ==
    /\ lims \in {<<New(max, 1)>> : max \in Counts} \cup {<<NewUnlimited>>}
    /\ hist = <<NewHist("")>>
    /\ proc = [p \in Procs |-> Idle]
    /\ ops = 0
    /\ ctxDone = FALSE
    /\ crashed = FALSE
    /\ kind = "limiter"
    /\ limiters = [k \in Keys |-> 0]
    /\ options = [k \in Keys |-> <<>>]
    /\ defaults = NoCfg

\* What SetLimit and SetDuration are called with.
LimiterCounts == {Uint(0, 0), Uint(0, 2)}
LimiterDurations == {0, 2}

NextLimiter ==
    \/ Background
    \/ \E p \in Procs : Take(p, 1)
    \/ \E p \in Procs : CanTake(p, 1)
    \/ \E p \in Procs, max \in LimiterCounts : SetLimit(p, 1, max)
    \/ \E p \in Procs, d \in LimiterDurations : SetDuration(p, 1, d)
    \/ \E p \in Procs : Stop(p, 1)
    \/ CancelCtx

SpecLimiter == InitLimiter /\ [][NextLimiter]_vars

\* Take and Stop only, under the scheduling the Go runtime gives: a goroutine
\* that can step does (WF); the ticker keeps firing until it is stopped (WF);
\* the select picks among its ready cases at random, so a case that is ready
\* again and again is taken in the end (SF on the Done cases).
NextStop ==
    \/ Background
    \/ \E p \in Procs : Take(p, 1)
    \/ \E p \in Procs : Stop(p, 1)
    \/ CancelCtx

FairStop ==
    /\ InitLimiter
    /\ [][NextStop]_vars
    /\ WF_vars(RunCheck(1))
    /\ WF_vars(RunWaitTick(1))
    /\ WF_vars(RunStore(1))
    /\ WF_vars(RunDec(1))
    /\ WF_vars(Tick(1))
    /\ SF_vars(RunDone(1))
    /\ \A p \in Procs : WF_vars(TakeClosed(p))

\* ------------------------------------------------------------ AutoLimiter
\* The limiter an options struct asks for: NewUnlimited(e.ctx) or
\* New(e.ctx, MaxCount, Duration).
Construct(c) == IF c.unl THEN NewUnlimited ELSE New(c.max, c.dur)

\* New's time.NewTicker(duration) panics.
ConstructPanics(c) == ~c.unl /\ TickerPanics(c.dur)

\* AutoLimiter.Add's validation; the registry's key is the Key of the options.
AutoInvalid(k, c) == ~c.unl /\ (k = "" \/ IsZero(c.max) \/ c.dur = 0)

\* Caller p starts call o with key k and options c at position pc.
Call(p, o, k, c, pc) ==
    [proc EXCEPT ![p] = [Idle EXCEPT !.pc = pc, !.op = o, !.key = k, !.cfg = c]]

\* Caller p moves to position pc.
Goto(p, pc) == [proc EXCEPT ![p].pc = pc]

\* Caller p, in a call, constructs the limiter of options c for key k and
\* stores it as live (e.limiters.Store(key, limiter)), then goes to pc;
\* a panic in New ends the program.
ConstructAndStore(p, k, c, pc) ==
    /\ Len(lims) < MaxLimiters
    /\ IF ConstructPanics(c)
       THEN /\ crashed' = TRUE
            /\ proc' = Return(p, proc[p].op, "panic")
            /\ UNCHANGED <<lims, hist, limiters>>
       ELSE /\ lims' = Append(lims, Construct(c))
            /\ hist' = Append(hist, NewHist(k))
            /\ limiters' = [limiters EXCEPT ![k] = Len(lims) + 1]
            /\ proc' = [proc EXCEPT ![p].pc = pc, ![p].lim = Len(lims) + 1]
            /\ UNCHANGED crashed

\* AutoLimiter.Add: the options are built and validated.
AutoAdd(p, k, c) ==
    /\ CanCall(p) /\ kind = "auto"
    /\ proc' = IF AutoInvalid(k, c)
               THEN [proc EXCEPT ![p] = [Idle EXCEPT !.op = "Add", !.key = k,
                                                     !.res = "ValidationError"]]
               ELSE Call(p, "Add", k, c, "add_load")
    /\ ops' = ops + 1
    /\ UNCHANGED <<lims, hist, ctxDone, crashed, regVars>>

\* A slip: Add does not look for the key.
AutoAddLoadSkipped(p) ==
    /\ ~crashed
    /\ proc[p].pc = "add_load"
    /\ proc' = Goto(p, "add_store")
    /\ UNCHANGED <<lims, hist, ops, ctxDone, crashed, regVars>>

\* Add: if _, exists := e.limiters.Load(key); exists { return ErrAutoKeyAlreadyExists }
AutoAddLoad(p) ==
    /\ ~crashed
    /\ proc[p].pc = "add_load"
    /\ proc' = IF limiters[proc[p].key] # 0
               THEN Return(p, proc[p].op, "KeyAlreadyExists")
               ELSE Goto(p, "add_store")
    /\ UNCHANGED <<lims, hist, ops, ctxDone, crashed, regVars>>

\* Add: the limiter is constructed and e.limiters.Store(key, rlimiter).
AutoAddStore(p) ==
    /\ ~crashed
    /\ proc[p].pc = "add_store"
    /\ ConstructAndStore(p, proc[p].key, proc[p].cfg, "add_opts")
    /\ UNCHANGED <<ops, ctxDone, kind, options, defaults>>

\* Add: e.options.Store(key, options); return nil.  AddAndTake goes on to
\* e.Take(key).
AutoAddOpts(p) ==
    /\ ~crashed
    /\ proc[p].pc = "add_opts"
    /\ options' = [options EXCEPT ![proc[p].key] = <<proc[p].cfg>>]
    /\ proc' = IF proc[p].op = "AddAndTake"
               THEN [proc EXCEPT ![p].pc = "get", ![p].lim = 0]
               ELSE Return(p, proc[p].op, "nil")
    /\ UNCHANGED <<lims, hist, ops, ctxDone, crashed, kind, limiters, defaults>>

\* AutoLimiter.Take, CanTake, Allow and AllowN (with its n): the call.
AutoTake(p, k) ==
    /\ CanCall(p) /\ kind = "auto"
    /\ proc' = Call(p, "Take", k, NoCfg, "get")
    /\ ops' = ops + 1
    /\ UNCHANGED <<lims, hist, ctxDone, crashed, regVars>>

AutoCanTake(p, k) ==
    /\ CanCall(p) /\ kind = "auto"
    /\ proc' = Call(p, "CanTake", k, NoCfg, "get")
    /\ ops' = ops + 1
    /\ UNCHANGED <<lims, hist, ctxDone, crashed, regVars>>

AutoAllow(p, k) ==
    /\ CanCall(p) /\ kind = "auto"
    /\ proc' = Call(p, "Allow", k, NoCfg, "get")
    /\ ops' = ops + 1
    /\ UNCHANGED <<lims, hist, ctxDone, crashed, regVars>>

AutoAllowN(p, k, n) ==
    /\ CanCall(p) /\ kind = "auto"
    /\ proc' = [Call(p, "AllowN", k, NoCfg, "get") EXCEPT ![p].n = n]
    /\ ops' = ops + 1
    /\ UNCHANGED <<lims, hist, ctxDone, crashed, regVars>>

\* Where a call goes once it holds its limiter: Take blocks in limiter.Take(),
\* CanTake and Allow read limiter.CanTake(), AllowN loops over it.
Use(o) ==
    CASE o \in {"Take", "AddAndTake"} -> "take"
      [] o \in {"CanTake", "Allow"} -> "cantake"
      [] o = "GetLimit" -> "getlimit"
      [] OTHER -> "allown"

\* A slip: the stored options are not looked at.
RememberedNever(k) == FALSE

\* createOrDefault: optsVal, exists := e.options.Load(key)
Remembered(k) == options[k] # <<>>

\* e.get(key): e.limiters.Load(key); a missing key goes to createOrDefault,
\* whose first step is e.options.Load(key).
AutoGet(p) ==
    /\ ~crashed /\ kind = "auto"
    /\ proc[p].pc = "get"
    /\ proc' = IF limiters[proc[p].key] # 0
               THEN [proc EXCEPT ![p].pc = Use(proc[p].op),
                                 ![p].lim = limiters[proc[p].key]]
               ELSE Goto(p, "cod_load")
    /\ UNCHANGED <<lims, hist, ops, ctxDone, crashed, regVars>>

\* createOrDefault: if optsVal, exists := e.options.Load(key); exists
AutoCreateOrDefault(p) ==
    /\ ~crashed
    /\ proc[p].pc = "cod_load"
    /\ proc' = Goto(p, IF Remembered(proc[p].key) THEN "rec_load" ELSE "cod_new")
    /\ UNCHANGED <<lims, hist, ops, ctxDone, crashed, regVars>>

\* recreateLimiter: optsVal, exists := e.options.Load(key); when the options
\* are gone by now it returns ErrAutoKeyMissing and createOrDefault falls back
\* to the defaults.
AutoRecreateLoad(p) ==
    /\ ~crashed
    /\ proc[p].pc = "rec_load"
    /\ proc' = IF options[proc[p].key] # <<>>
               THEN [proc EXCEPT ![p].pc = "rec_new",
                                 ![p].cfg = options[proc[p].key][1]]
               ELSE Goto(p, "cod_new")
    /\ UNCHANGED <<lims, hist, ops, ctxDone, crashed, regVars>>

\* recreateLimiter: the limiter of the stored options is constructed and
\* e.limiters.Store(key, rlimiter).
AutoRecreateStore(p) ==
    /\ ~crashed
    /\ proc[p].pc = "rec_new"
    /\ ConstructAndStore(p, proc[p].key, proc[p].cfg, Use(proc[p].op))
    /\ UNCHANGED <<ops, ctxDone, kind, options, defaults>>

\* A slip: createOrDefault also remembers the default options for the key.
AutoDefaultStoreRemembers(p) ==
    /\ ~crashed
    /\ proc[p].pc = "cod_new"
    /\ ConstructAndStore(p, proc[p].key, defaults, Use(proc[p].op))
    /\ options' = [options EXCEPT ![proc[p].key] = <<defaults>>]
    /\ UNCHANGED <<ops, ctxDone, kind, defaults>>

\* createOrDefault: the limiter of e.defaultOptions is constructed and
\* e.limiters.Store(key, limiter).
AutoDefaultStore(p) ==
    /\ ~crashed
    /\ proc[p].pc = "cod_new"
    /\ ConstructAndStore(p, proc[p].key, defaults, Use(proc[p].op))
    /\ UNCHANGED <<ops, ctxDone, kind, options, defaults>>

\* CanTake / Allow: return limiter.CanTake()
RegCanTake(p) ==
    /\ ~crashed
    /\ proc[p].pc = "cantake"
    /\ proc' = Return(p, proc[p].op,
                      IF ~IsZero(lims[proc[p].lim].count) THEN "true" ELSE "false")
    /\ UNCHANGED <<lims, hist, ops, ctxDone, crashed, regVars>>

\* AllowN: for i := 0; i < n; i++ { if !limiter.CanTake() { return false } }
\* return true
AutoAllowNLoop(p) ==
    /\ ~crashed
    /\ proc[p].pc = "allown"
    /\ proc' = IF proc[p].i >= proc[p].n THEN Return(p, "AllowN", "true")
               ELSE IF IsZero(lims[proc[p].lim].count) THEN Return(p, "AllowN", "false")
               ELSE [proc EXCEPT ![p].i = @ + 1]
    /\ UNCHANGED <<lims, hist, ops, ctxDone, crashed, regVars>>

\* AutoLimiter.Stop(keys...): the call; with no key it ranges over the map.
AutoStop(p, ks) ==
    /\ CanCall(p) /\ kind = "auto"
    /\ proc' = [proc EXCEPT ![p] = [Idle EXCEPT !.pc = "stop_next", !.op = "Stop",
                                                !.keys = ks, !.todo = ks]]
    /\ ops' = ops + 1
    /\ UNCHANGED <<lims, hist, ctxDone, crashed, regVars>>

\* Stop, the next key.  Named keys: e.get(v), a missing key is skipped.  No
\* key named: e.limiters.Range hands the callback a key it has not visited
\* yet and that is in the map (todo holds the visited ones); the call returns
\* when there is none.
AutoStopNext(p) ==
    /\ ~crashed
    /\ proc[p].pc = "stop_next"
    /\ LET left == IF proc[p].keys = {} THEN {k \in Keys : limiters[k] # 0} \ proc[p].todo
                   ELSE proc[p].todo
       IN IF left = {}
          THEN proc' = Return(p, "Stop", "none")
          ELSE \E k \in left :
                 proc' = [proc EXCEPT
                            ![p].key = k,
                            ![p].lim = limiters[k],
                            ![p].todo = IF proc[p].keys = {} THEN @ \cup {k}
                                        ELSE @ \ {k},
                            ![p].pc = IF limiters[k] # 0 THEN "stop_stop"
                                      ELSE "stop_next"]
    /\ UNCHANGED <<lims, hist, ops, ctxDone, crashed, regVars>>

\* Stop: limiter.Stop()
AutoStopStop(p) ==
    /\ ~crashed
    /\ proc[p].pc = "stop_stop"
    /\ lims' = [lims EXCEPT ![proc[p].lim].cancelled = TRUE]
    /\ proc' = Goto(p, "stop_del")
    /\ UNCHANGED <<hist, ops, ctxDone, crashed, regVars>>

\* A slip: Stop(key) empties the map of live limiters.
AutoStopDeleteEvery(p) ==
    /\ ~crashed
    /\ proc[p].pc = "stop_del"
    /\ limiters' = [k \in Keys |-> 0]
    /\ proc' = Goto(p, "stop_next")
    /\ UNCHANGED <<lims, hist, ops, ctxDone, crashed, kind, options, defaults>>

\* A slip: Stop forgets the options as Remove does.
AutoStopDeleteAll(p) ==
    /\ ~crashed
    /\ proc[p].pc = "stop_del"
    /\ limiters' = [limiters EXCEPT ![proc[p].key] = 0]
    /\ options' = [options EXCEPT ![proc[p].key] = <<>>]
    /\ proc' = Goto(p, "stop_next")
    /\ UNCHANGED <<lims, hist, ops, ctxDone, crashed, kind, defaults>>

\* Stop: e.limiters.Delete(key); the options are kept.
AutoStopDelete(p) ==
    /\ ~crashed
    /\ proc[p].pc = "stop_del"
    /\ limiters' = [limiters EXCEPT ![proc[p].key] = 0]
    /\ proc' = Goto(p, "stop_next")
    /\ UNCHANGED <<lims, hist, ops, ctxDone, crashed, kind, options, defaults>>

\* AutoLimiter.Remove: the call.
AutoRemove(p, k) ==
    /\ CanCall(p) /\ kind = "auto"
    /\ proc' = Call(p, "Remove", k, NoCfg, "rm_get")
    /\ ops' = ops + 1
    /\ UNCHANGED <<lims, hist, ctxDone, crashed, regVars>>

\* Remove: if limiter, err := e.get(key); err == nil
AutoRemoveGet(p) ==
    /\ ~crashed
    /\ proc[p].pc = "rm_get"
    /\ proc' = IF limiters[proc[p].key] # 0
               THEN [proc EXCEPT ![p].pc = "rm_stop", ![p].lim = limiters[proc[p].key]]
               ELSE Goto(p, "rm_opts")
    /\ UNCHANGED <<lims, hist, ops, ctxDone, crashed, regVars>>

\* Remove: limiter.Stop()
AutoRemoveStop(p) ==
    /\ ~crashed
    /\ proc[p].pc = "rm_stop"
    /\ lims' = [lims EXCEPT ![proc[p].lim].cancelled = TRUE]
    /\ proc' = Goto(p, "rm_del")
    /\ UNCHANGED <<hist, ops, ctxDone, crashed, regVars>>

\* Remove: e.limiters.Delete(key)
AutoRemoveDelete(p) ==
    /\ ~crashed
    /\ proc[p].pc = "rm_del"
    /\ limiters' = [limiters EXCEPT ![proc[p].key] = 0]
    /\ proc' = Goto(p, "rm_opts")
    /\ UNCHANGED <<lims, hist, ops, ctxDone, crashed, kind, options, defaults>>

\* The history once a Remove of key k has returned.
Removed(k) ==
    [l \in Addrs |-> IF hist[l].key = k THEN [hist[l] EXCEPT !.removed = TRUE]
                      ELSE hist[l]]

\* A slip: Remove leaves the stored options.
AutoRemoveOptionsKept(p) ==
    /\ ~crashed
    /\ proc[p].pc = "rm_opts"
    /\ hist' = Removed(proc[p].key)
    /\ proc' = Return(p, "Remove", "none")
    /\ UNCHANGED <<lims, ops, ctxDone, crashed, regVars>>

\* Remove: e.options.Delete(key)
AutoRemoveOptions(p) ==
    /\ ~crashed
    /\ proc[p].pc = "rm_opts"
    /\ options' = [options EXCEPT ![proc[p].key] = <<>>]
    /\ hist' = Removed(proc[p].key)
    /\ proc' = Return(p, "Remove", "none")
    /\ UNCHANGED <<lims, ops, ctxDone, crashed, kind, limiters, defaults>>

\* AutoLimiter.AddAndTake: the call.
AutoAddAndTake(p, k, c) ==
    /\ CanCall(p) /\ kind = "auto"
    /\ proc' = Call(p, "AddAndTake", k, c, "aat_get")
    /\ ops' = ops + 1
    /\ UNCHANGED <<lims, hist, ctxDone, crashed, regVars>>

\* A slip: AddAndTake adds without looking for the key.
AutoAddAndTakeAlwaysAdds(p) ==
    /\ ~crashed /\ kind = "auto"
    /\ proc[p].pc = "aat_get"
    /\ proc' = IF AutoInvalid(proc[p].key, proc[p].cfg)
               THEN Return(p, "AddAndTake", "ValidationError")
               ELSE Goto(p, "add_store")
    /\ UNCHANGED <<lims, hist, ops, ctxDone, crashed, regVars>>

\* AddAndTake: if limiter, err := e.get(key); err == nil { limiter.Take() },
\* else e.Add(key, opts...), whose validation comes first.  The caller's n
\* is 1 when the limiter was there.
AutoAddAndTakeGet(p) ==
    /\ ~crashed /\ kind = "auto"
    /\ proc[p].pc = "aat_get"
    /\ proc' = IF limiters[proc[p].key] # 0
               THEN [proc EXCEPT ![p].pc = "take", ![p].lim = limiters[proc[p].key],
                                 ![p].n = 1]
               ELSE IF AutoInvalid(proc[p].key, proc[p].cfg)
               THEN Return(p, "AddAndTake", "ValidationError")
               ELSE Goto(p, "add_load")
    /\ UNCHANGED <<lims, hist, ops, ctxDone, crashed, regVars>>

\* ----------------------------------------------------------- MultiLimiter
\* The keys of map m.
Registered(m) == {k \in Keys : m[k] # 0}

\* The callers pr after the map has become m: the Keys calls in progress have
\* one more key set on record.
Watch(pr, m) ==
    [q \in Procs |-> IF pr[q].pc = "keys_next"
                     THEN [pr[q] EXCEPT !.seen = @ \cup {Registered(m)}]
                     ELSE pr[q]]

\* Options.Validate
MultiInvalid(k, c) == k = "" \/ (~c.unl /\ (IsZero(c.max) \/ c.dur <= 0))

\* MultiLimiter.Add: opts.Validate()
MultiAdd(p, k, c) ==
    /\ CanCall(p) /\ kind = "multi"
    /\ proc' = IF MultiInvalid(k, c)
               THEN [proc EXCEPT ![p] = [Idle EXCEPT !.op = "Add", !.key = k,
                                                     !.res = "ValidationError"]]
               ELSE Call(p, "Add", k, c, "madd_new")
    /\ ops' = ops + 1
    /\ UNCHANGED <<lims, hist, ctxDone, crashed, regVars>>

\* Add: the limiter is constructed before the map is looked at.
MultiAddNew(p) ==
    /\ ~crashed
    /\ proc[p].pc = "madd_new"
    /\ Len(lims) < MaxLimiters
    /\ lims' = Append(lims, Construct(proc[p].cfg))
    /\ hist' = Append(hist, NewHist(proc[p].key))
    /\ proc' = [proc EXCEPT ![p].pc = "madd_los", ![p].lim = Len(lims) + 1]
    /\ UNCHANGED <<ops, ctxDone, crashed, regVars>>

\* Add: _, ok := m.limiters.LoadOrStore(opts.Key, limiter)
MultiAddLoadOrStore(p) ==
    /\ ~crashed
    /\ proc[p].pc = "madd_los"
    /\ IF limiters[proc[p].key] # 0
       THEN /\ proc' = Return(p, proc[p].op, "KeyAlreadyExists")
            /\ UNCHANGED limiters
       ELSE /\ limiters' = [limiters EXCEPT ![proc[p].key] = proc[p].lim]
            /\ proc' = Watch(IF proc[p].op = "AddAndTake"
                             THEN [proc EXCEPT ![p].pc = "get", ![p].lim = 0]
                             ELSE Return(p, "Add", "nil"),
                             limiters')
    /\ UNCHANGED <<lims, hist, ops, ctxDone, crashed, kind, options, defaults>>

\* MultiLimiter.AddAndTakeErr: the call.
MultiAddAndTake(p, k, c) ==
    /\ CanCall(p) /\ kind = "multi"
    /\ proc' = Call(p, "AddAndTake", k, c, "maat_get")
    /\ ops' = ops + 1
    /\ UNCHANGED <<lims, hist, ctxDone, crashed, regVars>>

\* AddAndTakeErr: if limiter, err := m.get(opts.Key); err == nil
\* { limiter.Take() }, else m.Add(opts), whose Validate comes first, and then
\* m.Take(opts.Key).  The caller's n is 1 when the limiter was there.
MultiAddAndTakeGet(p) ==
    /\ ~crashed /\ kind = "multi"
    /\ proc[p].pc = "maat_get"
    /\ proc' = IF limiters[proc[p].key] # 0
               THEN [proc EXCEPT ![p].pc = "take", ![p].lim = limiters[proc[p].key],
                                 ![p].n = 1]
               ELSE IF MultiInvalid(proc[p].key, proc[p].cfg)
               THEN Return(p, "AddAndTake", "ValidationError")
               ELSE Goto(p, "madd_new")
    /\ UNCHANGED <<lims, hist, ops, ctxDone, crashed, regVars>>

\* MultiLimiter.Take and CanTake: the call.
MultiTake(p, k) ==
    /\ CanCall(p) /\ kind = "multi"
    /\ proc' = Call(p, "Take", k, NoCfg, "get")
    /\ ops' = ops + 1
    /\ UNCHANGED <<lims, hist, ctxDone, crashed, regVars>>

MultiCanTake(p, k) ==
    /\ CanCall(p) /\ kind = "multi"
    /\ proc' = Call(p, "CanTake", k, NoCfg, "get")
    /\ ops' = ops + 1
    /\ UNCHANGED <<lims, hist, ctxDone, crashed, regVars>>

\* MultiLimiter.GetLimit: the call.
MultiGetLimit(p, k) ==
    /\ CanCall(p) /\ kind = "multi"
    /\ proc' = Call(p, "GetLimit", k, NoCfg, "get")
    /\ ops' = ops + 1
    /\ UNCHANGED <<lims, hist, ctxDone, crashed, regVars>>

\* GetLimit: return limiter.GetLimit(), nil; the caller's cfg.max holds the
\* limit returned.
MultiGetLimitRead(p) ==
    /\ ~crashed
    /\ proc[p].pc = "getlimit"
    /\ proc' = [Return(p, "GetLimit", "limit") EXCEPT
                  ![p].cfg.max = UintOf(lims[proc[p].lim].maxCount)]
    /\ UNCHANGED <<lims, hist, ops, ctxDone, crashed, regVars>>

\* A slip: a missing key is answered as if it were there.
MultiGetLenient(p) ==
    /\ ~crashed /\ kind = "multi"
    /\ proc[p].pc = "get"
    /\ proc' = IF limiters[proc[p].key] # 0
               THEN [proc EXCEPT ![p].pc = Use(proc[p].op),
                                 ![p].lim = limiters[proc[p].key]]
               ELSE Return(p, proc[p].op,
                           IF proc[p].op = "CanTake" THEN "true" ELSE "nil")
    /\ UNCHANGED <<lims, hist, ops, ctxDone, crashed, regVars>>

\* m.get(key): a missing key is ErrKeyMissing for Take and GetLimit, false
\* for CanTake.
MultiGet(p) ==
    /\ ~crashed /\ kind = "multi"
    /\ proc[p].pc = "get"
    /\ proc' = IF limiters[proc[p].key] # 0
               THEN [proc EXCEPT ![p].pc = Use(proc[p].op),
                                 ![p].lim = limiters[proc[p].key]]
               ELSE Return(p, proc[p].op,
                           IF proc[p].op = "CanTake" THEN "false" ELSE "KeyMissing")
    /\ UNCHANGED <<lims, hist, ops, ctxDone, crashed, regVars>>

\* MultiLimiter.Stop(keys...): the call.
MultiStop(p, ks) ==
    /\ CanCall(p) /\ kind = "multi"
    /\ proc' = [proc EXCEPT ![p] = [Idle EXCEPT !.pc = "mstop_next", !.op = "Stop",
                                                !.keys = ks, !.todo = ks]]
    /\ ops' = ops + 1
    /\ UNCHANGED <<lims, hist, ctxDone, crashed, regVars>>

\* Stop, the next key: m.get(v) for a named key, the next map entry of
\* m.limiters.Range when none is named (todo holds the visited ones).
MultiStopNext(p) ==
    /\ ~crashed
    /\ proc[p].pc = "mstop_next"
    /\ LET left == IF proc[p].keys = {} THEN {k \in Keys : limiters[k] # 0} \ proc[p].todo
                   ELSE proc[p].todo
       IN IF left = {}
          THEN proc' = Return(p, "Stop", "none")
          ELSE \E k \in left :
                 proc' = [proc EXCEPT
                            ![p].key = k,
                            ![p].lim = limiters[k],
                            ![p].todo = IF proc[p].keys = {} THEN @ \cup {k}
                                        ELSE @ \ {k},
                            ![p].pc = IF limiters[k] # 0 THEN "mstop_stop"
                                      ELSE "mstop_next"]
    /\ UNCHANGED <<lims, hist, ops, ctxDone, crashed, regVars>>

\* Stop: limiter.Stop(); the key stays in the map.
MultiStopStop(p) ==
    /\ ~crashed
    /\ proc[p].pc = "mstop_stop"
    /\ lims' = [lims EXCEPT ![proc[p].lim].cancelled = TRUE]
    /\ proc' = Goto(p, "mstop_next")
    /\ UNCHANGED <<hist, ops, ctxDone, crashed, regVars>>

\* MultiLimiter.Delete(keys...): the call.
MultiDelete(p, ks) ==
    /\ CanCall(p) /\ kind = "multi"
    /\ proc' = [proc EXCEPT ![p] = [Idle EXCEPT !.pc = "mdel_next", !.op = "Delete",
                                                !.keys = ks, !.todo = ks]]
    /\ ops' = ops + 1
    /\ UNCHANGED <<lims, hist, ctxDone, crashed, regVars>>

\* Delete, the next key: val, ok := m.limiters.LoadAndDelete(k)
MultiDeleteNext(p) ==
    /\ ~crashed
    /\ proc[p].pc = "mdel_next"
    /\ IF proc[p].todo = {}
       THEN /\ proc' = Return(p, "Delete", "none")
            /\ UNCHANGED limiters
       ELSE \E k \in proc[p].todo :
              /\ limiters' = [limiters EXCEPT ![k] = 0]
              /\ proc' = Watch([proc EXCEPT
                                  ![p].key = k,
                                  ![p].lim = limiters[k],
                                  ![p].todo = @ \ {k},
                                  ![p].pc = IF limiters[k] # 0 THEN "mdel_stop"
                                            ELSE "mdel_next"],
                               limiters')
    /\ UNCHANGED <<lims, hist, ops, ctxDone, crashed, kind, options, defaults>>

\* Delete: limiter.Stop()
MultiDeleteStop(p) ==
    /\ ~crashed
    /\ proc[p].pc = "mdel_stop"
    /\ lims' = [lims EXCEPT ![proc[p].lim].cancelled = TRUE]
    /\ proc' = Goto(p, "mdel_next")
    /\ UNCHANGED <<hist, ops, ctxDone, crashed, regVars>>

\* MultiLimiter.Keys: the call.  keys is the slice being filled, todo the
\* keys m.limiters.Range has been through.
MultiKeys(p) ==
    /\ CanCall(p) /\ kind = "multi"
    /\ proc' = [proc EXCEPT ![p] = [Idle EXCEPT !.pc = "keys_next", !.op = "Keys",
                                                !.seen = {Registered(limiters)}]]
    /\ ops' = ops + 1
    /\ UNCHANGED <<lims, hist, ctxDone, crashed, regVars>>

\* Keys: m.limiters.Range goes through the keys one at a time, each at most
\* once, and calls the function for a key that is in the map when Range gets
\* to it: keys = append(keys, ks).  With no key left, return keys.
MultiKeysNext(p) ==
    /\ ~crashed
    /\ proc[p].pc = "keys_next"
    /\ IF proc[p].todo = Keys
       THEN proc' = [Return(p, "Keys", "keys") EXCEPT ![p].seen = proc[p].seen]
       ELSE \E k \in Keys \ proc[p].todo :
              proc' = [proc EXCEPT
                         ![p].todo = @ \cup {k},
                         ![p].keys = IF limiters[k] # 0 THEN @ \cup {k} ELSE @]
    /\ UNCHANGED <<lims, hist, ops, ctxDone, crashed, regVars>>

\* ------------------------------------------------------------- a registry
\* The options the callers pass to Add and AddAndTake: a custom limit, an
\* unlimited one, one without a count, one with a negative duration.
Custom == [unl |-> FALSE, max |-> Uint(0, 2), dur |-> 2]
Unlimited == [unl |-> TRUE, max |-> Uint(0, 0), dur |-> 0]
AddOptions == {Custom, Unlimited,
               [unl |-> FALSE, max |-> Uint(0, 0), dur |-> 1],
               [unl |-> FALSE, max |-> Uint(0, 1), dur |-> -1]}

\* The options NewAutoLimiter is given: none, a limit of one per interval,
\* or WithUnlimited().
DefaultOptions == {NoCfg, [unl |-> FALSE, max |-> Uint(0, 1), dur |-> 1], Unlimited}

\* The n of AllowN.
AllowCounts == {0, 2}

\* NewAutoLimiter(ctx, opts...) or NewMultiLimiterEmpty(ctx): no key yet.
InitRegistry ==
    /\ lims = <<>>
    /\ hist = <<>>
    /\ proc = [p \in Procs |-> Idle]
    /\ ops = 0
    /\ ctxDone = FALSE
    /\ crashed = FALSE
    /\ kind \in {"auto", "multi"}
    /\ limiters = [k \in Keys |-> 0]
    /\ options = [k \in Keys |-> <<>>]
    /\ defaults \in DefaultOptions
    /\ kind = "multi" => defaults = NoCfg

\* The run goroutines and the callers' pending steps, within one interval
\* (no ticker fires).
RegistrySteps(P) ==
    \/ \E l \in Addrs : RunCheck(l)
    \/ \E l \in Addrs : RunDone(l)
    \/ \E l \in Addrs, p \in P : RunSend(l, p)
    \/ \E l \in Addrs : RunDec(l)
    \/ \E p \in P : TakeClosed(p)
    \/ \E p \in P : AutoAddLoad(p)
    \/ \E p \in P : AutoAddStore(p)
    \/ \E p \in P : AutoAddOpts(p)
    \/ \E p \in P : AutoGet(p)
    \/ \E p \in P : AutoCreateOrDefault(p)
    \/ \E p \in P : AutoRecreateLoad(p)
    \/ \E p \in P : AutoRecreateStore(p)
    \/ \E p \in P : AutoDefaultStore(p)
    \/ \E p \in P : RegCanTake(p)
    \/ \E p \in P : AutoAllowNLoop(p)
    \/ \E p \in P : AutoStopNext(p)
    \/ \E p \in P : AutoStopStop(p)
    \/ \E p \in P : AutoStopDelete(p)
    \/ \E p \in P : AutoRemoveGet(p)
    \/ \E p \in P : AutoRemoveStop(p)
    \/ \E p \in P : AutoRemoveDelete(p)
    \/ \E p \in P : AutoRemoveOptions(p)
    \/ \E p \in P : MultiAddNew(p)
    \/ \E p \in P : MultiAddLoadOrStore(p)
    \/ \E p \in P : MultiGet(p)
    \/ \E p \in P : MultiGetLimitRead(p)
    \/ \E p \in P : MultiStopNext(p)
    \/ \E p \in P : MultiStopStop(p)
    \/ \E p \in P : MultiDeleteNext(p)
    \/ \E p \in P : MultiDeleteStop(p)

\* The calls callers P make on keys K.
RegistryCalls(P, K) ==
    \/ \E p \in P, k \in K, c \in AddOptions : AutoAdd(p, k, c)
    \/ \E p \in P, k \in K : AutoTake(p, k)
    \/ \E p \in P, k \in K : AutoCanTake(p, k)
    \/ \E p \in P, k \in K : AutoAllow(p, k)
    \/ \E p \in P, k \in K, n \in AllowCounts : AutoAllowN(p, k, n)
    \/ \E p \in P, ks \in SUBSET K : AutoStop(p, ks)
    \/ \E p \in P, k \in K : AutoRemove(p, k)
    \/ \E p \in P, k \in K, c \in AddOptions : MultiAdd(p, k, c)
    \/ \E p \in P, k \in K : MultiTake(p, k)
    \/ \E p \in P, k \in K : MultiCanTake(p, k)
    \/ \E p \in P, k \in K : MultiGetLimit(p, k)
    \/ \E p \in P, ks \in SUBSET K : MultiStop(p, ks)
    \/ \E p \in P, ks \in SUBSET K : MultiDelete(p, ks)

\* One caller, calls one after the other, on two keys.
NextSequential == RegistrySteps(OneCaller) \/ RegistryCalls(OneCaller, Keys)
SpecSequential == InitRegistry /\ [][NextSequential]_vars

\* Two callers racing on one key.
OneKey == {"a"}
NextConcurrent == RegistrySteps(TwoCallers) \/ RegistryCalls(TwoCallers, OneKey)
SpecConcurrent == InitRegistry /\ [][NextConcurrent]_vars

\* AddAndTake, after Add or on its own, by one caller on one key.
AddAndTakeOptions == {Custom, Unlimited, [unl |-> FALSE, max |-> Uint(0, 0), dur |-> 1]}
NextAddAndTake ==
    \/ \E l \in Addrs : RunCheck(l)
    \/ \E l \in Addrs, p \in OneCaller : RunSend(l, p)
    \/ \E l \in Addrs : RunDec(l)
    \/ \E p \in OneCaller : AutoAddLoad(p)
    \/ \E p \in OneCaller : AutoAddStore(p)
    \/ \E p \in OneCaller : AutoAddOpts(p)
    \/ \E p \in OneCaller : AutoGet(p)
    \/ \E p \in OneCaller : AutoAddAndTakeGet(p)
    \/ \E p \in OneCaller : MultiAddNew(p)
    \/ \E p \in OneCaller : MultiAddLoadOrStore(p)
    \/ \E p \in OneCaller : MultiGet(p)
    \/ \E p \in OneCaller : MultiAddAndTakeGet(p)
    \/ \E p \in OneCaller, k \in OneKey, c \in AddOptions : AutoAdd(p, k, c)
    \/ \E p \in OneCaller, k \in OneKey, c \in AddAndTakeOptions : AutoAddAndTake(p, k, c)
    \/ \E p \in OneCaller, k \in OneKey, c \in AddOptions : MultiAdd(p, k, c)
    \/ \E p \in OneCaller, k \in OneKey, c \in AddAndTakeOptions : MultiAddAndTake(p, k, c)
SpecAddAndTake == InitRegistry /\ [][NextAddAndTake]_vars

\* -------------------------------------------- one limiter, with its clock
\* ratelimit.New(ctx, max, duration): a limit of one or two per interval of two
\* time units; one caller takes, whenever it likes.
TimedCounts == {Uint(0, 1), Uint(0, 2)}
TimedDurations == {2}

InitTimed ==
    /\ lims \in {<<New(max, d)>> : max \in TimedCounts, d \in TimedDurations}
    /\ hist = <<NewHist("")>>
    /\ proc = [p \in Procs |-> Idle]
    /\ ops = 0
    /\ ctxDone = FALSE
    /\ crashed = FALSE
    /\ kind = "limiter"
    /\ limiters = [k \in Keys |-> 0]
    /\ options = [k \in Keys |-> <<>>]
    /\ defaults = NoCfg

NextTimed ==
    \/ RunCheck(1)
    \/ RunWaitTick(1)
    \/ RunStore(1)
    \/ \E p \in OneCaller : RunSend(1, p)
    \/ RunDec(1)
    \/ RunSelectTick(1)
    \/ TimedTick(1)
    \/ Advance(1)
    \/ \E p \in OneCaller : Take(p, 1)

SpecTimed == InitTimed /\ [][NextTimed]_vars

\* ------------------------------------- Take on a limiter that is never stopped
\* ratelimit.New(ctx, max, duration) with max >= 1; nobody calls Stop and the
\* context is never cancelled.
WindowedCounts == {Uint(0, 1), Uint(0, 2)}

InitWindowed ==
    /\ lims \in {<<New(max, 1)>> : max \in WindowedCounts}
    /\ hist = <<NewHist("")>>
    /\ proc = [p \in Procs |-> Idle]
    /\ ops = 0
    /\ ctxDone = FALSE
    /\ crashed = FALSE
    /\ kind = "limiter"
    /\ limiters = [k \in Keys |-> 0]
    /\ options = [k \in Keys |-> <<>>]
    /\ defaults = NoCfg

NextTake ==
    \/ RunCheck(1)
    \/ RunWaitTick(1)
    \/ RunStore(1)
    \/ \E p \in Procs : RunSend(1, p)
    \/ RunDec(1)
    \/ RunSelectTick(1)
    \/ Tick(1)
    \/ \E p \in Procs : Take(p, 1)

\* The scheduling the Go runtime gives: the run goroutine steps when it can
\* (WF); the ticker keeps firing (WF); the select picks among its ready cases
\* at random and the receivers blocked on the channel are served in turn, so a
\* caller whose receive is ready again and again is served in the end (SF).
FairTake ==
    /\ InitWindowed
    /\ [][NextTake]_vars
    /\ WF_vars(RunCheck(1))
    /\ WF_vars(RunWaitTick(1))
    /\ WF_vars(RunStore(1))
    /\ WF_vars(RunDec(1))
    /\ WF_vars(Tick(1))
    /\ \A p \in Procs : SF_vars(RunSend(1, p))

\* ------------------------------------------------ the LeakyBucket strategy
\* int(max) of a uint below 2^16 (the only ones passed to NewLeakyBucket here).
IntOf(x) == x.lo

\* NewLeakyBucket: strategy LeakyBucket, rate.NewLimiter(rate.Every(duration),
\* int(max)), maxCount and interval; no ticker, no channel, no run goroutine.
\* bucket is what the rate.Limiter holds: it starts full, at burst tokens.
\* every is the argument of rate.Every: the time one token takes to accrue;
\* frac is the time accrued towards the next token; clock the time since
\* construction.
NewLeakyBucket(max, duration) ==
    [strategy |-> "LeakyBucket", maxCount |-> Uint32(max), interval |-> duration,
     burst |-> IntOf(max), bucket |-> IntOf(max), every |-> duration,
     frac |-> 0, clock |-> 0]

\* Limiter.Take, case LeakyBucket: leakyBucketLimiter.Wait(context.TODO()),
\* its error dropped.  Wait fails at once when one token exceeds the burst;
\* otherwise it reserves a token (the bucket may go below zero) and sleeps
\* until the reserved token has accrued: n tokens are still to accrue.
LeakyTake(p, l) ==
    /\ CanCall(p)
    /\ IF lims[l].burst < 1
       THEN /\ proc' = Return(p, "Take", "none")
            /\ UNCHANGED <<lims, hist>>
       ELSE /\ lims' = [lims EXCEPT ![l].bucket = @ - 1]
            /\ IF lims[l].bucket >= 1
               THEN /\ proc' = Return(p, "Take", "permit")
                    /\ hist' = [hist EXCEPT ![l].completed = @ + 1]
               ELSE /\ proc' = [proc EXCEPT ![p] = [Idle EXCEPT !.pc = "sleep",
                                   !.op = "Take", !.lim = l,
                                   !.n = 1 - lims[l].bucket]]
                    /\ UNCHANGED hist
    /\ ops' = ops + 1
    /\ UNCHANGED <<ctxDone, crashed, regVars>>

\* rate.Every(duration): one token accrues per duration, up to the burst; the
\* sleepers are one token closer to theirs.
LeakyAccrue(l) ==
    /\ ~crashed
    /\ lims[l].bucket < lims[l].burst
    /\ lims' = [lims EXCEPT ![l].bucket = @ + 1]
    /\ proc' = [p \in Procs |->
                  IF proc[p].pc = "sleep" /\ proc[p].lim = l
                  THEN [proc[p] EXCEPT !.n = @ - 1] ELSE proc[p]]
    /\ UNCHANGED <<hist, ops, ctxDone, crashed, regVars>>

\* Wait returns: the reserved token has accrued.
LeakyWake(p) ==
    /\ ~crashed
    /\ proc[p].pc = "sleep"
    /\ proc[p].n <= 0
    /\ proc' = Return(p, "Take", "permit")
    /\ hist' = [hist EXCEPT ![proc[p].lim].completed = @ + 1]
    /\ UNCHANGED <<lims, ops, ctxDone, crashed, regVars>>

\* Limiter.CanTake, case LeakyBucket: limiter.leakyBucketLimiter.Tokens() > 0.
\* Tokens() is a float64: the whole tokens of the bucket and the part of a
\* token accrued since, frac/every.
LeakyCanTake(p, l) ==
    /\ CanCall(p)
    /\ proc' = Return(p, "CanTake",
                      IF lims[l].bucket * lims[l].every + lims[l].frac > 0
                      THEN "true" ELSE "false")
    /\ ops' = ops + 1
    /\ UNCHANGED <<lims, hist, ctxDone, crashed, regVars>>

\* One limiter of each strategy, used through Take and CanTake only: at
\* address 1 a limiter from New or NewUnlimited, at address 2 one from
\* NewLeakyBucket.
LeakyCounts == {Uint(0, 1), Uint(0, 2)}

InitCanTake ==
    /\ lims \in {<<w, NewLeakyBucket(max, 1)>> :
                   w \in {New(Uint(0, 1), 1), NewUnlimited}, max \in LeakyCounts}
    /\ hist = <<NewHist(""), NewHist("")>>
    /\ proc = [p \in Procs |-> Idle]
    /\ ops = 0
    /\ ctxDone = FALSE
    /\ crashed = FALSE
    /\ kind = "limiter"
    /\ limiters = [k \in Keys |-> 0]
    /\ options = [k \in Keys |-> <<>>]
    /\ defaults = NoCfg

NextCanTake ==
    \/ RunCheck(1)
    \/ RunWaitTick(1)
    \/ RunStore(1)
    \/ \E p \in Procs : RunSend(1, p)
    \/ RunDec(1)
    \/ RunSelectTick(1)
    \/ Tick(1)
    \/ \E p \in Procs : Take(p, 1)
    \/ \E p \in Procs : CanTake(p, 1)
    \/ \E p \in Procs : LeakyTake(p, 2)
    \/ LeakyAccrue(2)
    \/ \E p \in Procs : LeakyWake(p)
    \/ \E p \in Procs : LeakyCanTake(p, 2)

SpecCanTake == InitCanTake /\ [][NextCanTake]_vars

\* ----------------------------------------- the LeakyBucket strategy, timed
Min(a, b) == IF a <= b THEN a ELSE b

\* One unit of time passes on a LeakyBucket limiter: the rate.Limiter accrues
\* 1/every of a token, nothing beyond the burst; with a whole token accrued
\* the sleepers are one token closer to theirs.
LeakyAdvance(l) ==
    /\ ~crashed
    /\ lims[l].clock < MaxTime
    /\ LET full == lims[l].bucket >= lims[l].burst
           whole == ~full /\ lims[l].frac + 1 >= lims[l].every
       IN /\ lims' = [lims EXCEPT
                        ![l].clock = @ + 1,
                        ![l].frac = IF full \/ whole THEN 0 ELSE @ + 1,
                        ![l].bucket = IF whole THEN @ + 1 ELSE @]
          /\ proc' = [p \in Procs |->
                        IF whole /\ proc[p].pc = "sleep" /\ proc[p].lim = l
                        THEN [proc[p] EXCEPT !.n = @ - 1] ELSE proc[p]]
    /\ UNCHANGED <<hist, ops, ctxDone, crashed, regVars>>

\* Limiter.SetLimit, case LeakyBucket: limiter.maxCount.Store(uint32(max));
\* limiter.leakyBucketLimiter.SetBurst(int(max)): the bucket holds no more
\* than the new burst.
LeakySetLimit(p, l, max) ==
    /\ CanCall(p)
    /\ lims' = [lims EXCEPT ![l].maxCount = Uint32(max),
                            ![l].burst = IntOf(max),
                            ![l].bucket = Min(@, IntOf(max)),
                            ![l].frac = IF lims[l].bucket >= IntOf(max) THEN 0 ELSE @]
    /\ hist' = [hist EXCEPT ![l].limitSet = TRUE, ![l].limit = max]
    /\ proc' = Return(p, "SetLimit", "none")
    /\ ops' = ops + 1
    /\ UNCHANGED <<ctxDone, crashed, regVars>>

\* Limiter.SetDuration, case LeakyBucket: limiter.interval = d;
\* limiter.leakyBucketLimiter.SetLimit(rate.Every(d)), d > 0: a token takes d
\* to accrue from now on; the part of a token accrued so far is kept.
LeakySetDuration(p, l, d) ==
    /\ CanCall(p)
    /\ lims' = [lims EXCEPT ![l].interval = d, ![l].every = d,
                            ![l].frac = (@ * d) \div lims[l].every]
    /\ proc' = Return(p, "SetDuration", "none")
    /\ ops' = ops + 1
    /\ UNCHANGED <<hist, ctxDone, crashed, regVars>>

\* NewLeakyBucket(ctx, max, duration) with max >= 1 and duration > 0, then
\* Take, CanTake, SetLimit and SetDuration while time passes.
LeakyDurations == {1, 2}

InitLeaky ==
    /\ lims \in {<<NewLeakyBucket(max, d)>> : max \in LeakyCounts, d \in LeakyDurations}
    /\ hist = <<NewHist("")>>
    /\ proc = [p \in Procs |-> Idle]
    /\ ops = 0
    /\ ctxDone = FALSE
    /\ crashed = FALSE
    /\ kind = "limiter"
    /\ limiters = [k \in Keys |-> 0]
    /\ options = [k \in Keys |-> <<>>]
    /\ defaults = NoCfg

NextLeaky ==
    \/ \E p \in Procs : LeakyTake(p, 1)
    \/ \E p \in Procs : LeakyWake(p)
    \/ \E p \in Procs : LeakyCanTake(p, 1)
    \/ \E p \in Procs, max \in LeakyCounts : LeakySetLimit(p, 1, max)
    \/ \E p \in Procs, d \in LeakyDurations : LeakySetDuration(p, 1, d)
    \/ LeakyAdvance(1)

SpecLeaky == InitLeaky /\ [][NextLeaky]_vars

\* ------------------------------------ a registry whose context is cancelled
\* NewAutoLimiter(ctx, WithMaxCount(1), WithDuration(1)): a caller Takes on a
\* key and Stops it, the tickers fire, and the program may cancel ctx.
InitCancel ==
    /\ lims = <<>>
    /\ hist = <<>>
    /\ proc = [p \in Procs |-> Idle]
    /\ ops = 0
    /\ ctxDone = FALSE
    /\ crashed = FALSE
    /\ kind = "auto"
    /\ limiters = [k \in Keys |-> 0]
    /\ options = [k \in Keys |-> <<>>]
    /\ defaults = [unl |-> FALSE, max |-> Uint(0, 1), dur |-> 1]

NextCancel ==
    \/ \E l \in Addrs : RunCheck(l)
    \/ \E l \in Addrs : RunWaitTick(l)
    \/ \E l \in Addrs : RunStore(l)
    \/ \E l \in Addrs : RunDone(l)
    \/ \E l \in Addrs, p \in OneCaller : RunSend(l, p)
    \/ \E l \in Addrs : RunDec(l)
    \/ \E l \in Addrs : RunSelectTick(l)
    \/ \E l \in Addrs : Tick(l)
    \/ \E p \in OneCaller : TakeClosed(p)
    \/ \E p \in OneCaller : AutoGet(p)
    \/ \E p \in OneCaller : AutoCreateOrDefault(p)
    \/ \E p \in OneCaller : AutoDefaultStore(p)
    \/ \E p \in OneCaller : AutoStopNext(p)
    \/ \E p \in OneCaller : AutoStopStop(p)
    \/ \E p \in OneCaller : AutoStopDelete(p)
    \/ \E p \in OneCaller, k \in OneKey : AutoTake(p, k)
    \/ \E p \in OneCaller, k \in OneKey : AutoStop(p, {k})
    \/ CancelCtx

\* The scheduling of FairStop, for every limiter the registry constructs.
FairCancel ==
    /\ InitCancel
    /\ [][NextCancel]_vars
    /\ \A l \in 1..MaxLimiters :
         /\ WF_vars(l \in Addrs /\ RunCheck(l))
         /\ WF_vars(l \in Addrs /\ RunWaitTick(l))
         /\ WF_vars(l \in Addrs /\ RunStore(l))
         /\ WF_vars(l \in Addrs /\ RunDec(l))
         /\ WF_vars(l \in Addrs /\ Tick(l))
         /\ SF_vars(l \in Addrs /\ RunDone(l))

\* ----------------------------------- an unlimited limiter, before any tick
\* limiter := NewUnlimited(ctx); for i := 0; i < 1000; i++ { limiter.Take() },
\* all within the ticker's first millisecond.
UnlimitedTakes == 1000

\* The loop calls Take again.
TakeLoop(p, l) ==
    /\ ~crashed
    /\ proc[p].pc = "idle"
    /\ hist[l].completed < UnlimitedTakes
    /\ proc' = [proc EXCEPT ![p] = [Idle EXCEPT !.pc = "take", !.op = "Take", !.lim = l]]
    /\ UNCHANGED <<lims, hist, ops, ctxDone, crashed, regVars>>

InitUnlimited ==
    /\ lims = <<NewUnlimited>>
    /\ hist = <<NewHist("")>>
    /\ proc = [p \in Procs |-> Idle]
    /\ ops = 0
    /\ ctxDone = FALSE
    /\ crashed = FALSE
    /\ kind = "limiter"
    /\ limiters = [k \in Keys |-> 0]
    /\ options = [k \in Keys |-> <<>>]
    /\ defaults = NoCfg

NextUnlimited ==
    \/ RunCheck(1)
    \/ \E p \in OneCaller : RunSend(1, p)
    \/ RunDec(1)
    \/ \E p \in OneCaller : TakeLoop(p, 1)

SpecUnlimited == InitUnlimited /\ [][NextUnlimited]_vars

\* -------------------------------------------- one limiter, its limit changed
\* ratelimit.New(ctx, max, duration) with max 1 or 2; one caller calls Take,
\* SetLimit (with 1, 2 or 2^32) and GetLimit while the ticker fires.
SetLimitCounts == {Uint(0, 1), Uint(0, 2), Uint(1, 0)}

NextSetLimit ==
    \/ RunCheck(1)
    \/ RunWaitTick(1)
    \/ RunStore(1)
    \/ \E p \in OneCaller : RunSend(1, p)
    \/ RunDec(1)
    \/ RunSelectTick(1)
    \/ Tick(1)
    \/ \E p \in OneCaller : Take(p, 1)
    \/ \E p \in OneCaller, max \in SetLimitCounts : SetLimit(p, 1, max)
    \/ \E p \in OneCaller : GetLimit(p, 1)

SpecSetLimit == InitWindowed /\ [][NextSetLimit]_vars

\* ----------------------------- one limiter with its clock, its period changed
\* As SpecTimed, and the caller calls SetDuration with one, two or three time
\* units.
SetDurations == {1, 2, 3}

NextSetDuration ==
    \/ NextTimed
    \/ \E p \in OneCaller, d \in SetDurations : SetDuration(p, 1, d)

SpecSetDuration == InitTimed /\ [][NextSetDuration]_vars

\* --------------------------------------------- AddAndTake by racing callers
\* Two callers call AddAndTake on key "a", unregistered at the start, with
\* options that Add accepts.
NextAddAndTakeRace ==
    \/ \E l \in Addrs : RunCheck(l)
    \/ \E l \in Addrs, p \in TwoCallers : RunSend(l, p)
    \/ \E l \in Addrs : RunDec(l)
    \/ \E p \in TwoCallers : AutoAddLoad(p)
    \/ \E p \in TwoCallers : AutoAddStore(p)
    \/ \E p \in TwoCallers : AutoAddOpts(p)
    \/ \E p \in TwoCallers : AutoGet(p)
    \/ \E p \in TwoCallers : AutoAddAndTakeGet(p)
    \/ \E p \in TwoCallers : MultiAddNew(p)
    \/ \E p \in TwoCallers : MultiAddLoadOrStore(p)
    \/ \E p \in TwoCallers : MultiGet(p)
    \/ \E p \in TwoCallers : MultiAddAndTakeGet(p)
    \/ \E p \in TwoCallers, k \in OneKey, c \in {Custom, Unlimited} : AutoAddAndTake(p, k, c)
    \/ \E p \in TwoCallers, k \in OneKey, c \in {Custom, Unlimited} : MultiAddAndTake(p, k, c)
SpecAddAndTakeRace == InitRegistry /\ [][NextAddAndTakeRace]_vars

\* ------------------------------------------- Keys while the map changes
\* A MultiLimiter that holds some of the keys, each with a limiter of two
\* permits per interval; two callers call Keys, Add and Delete.
InitKeys ==
    /\ \E ks \in SUBSET Keys :
         \E m \in [Keys -> 0..Cardinality(ks)] :
           /\ Registered(m) = ks
           /\ \A k \in ks : \A j \in ks : m[k] = m[j] => k = j
           /\ limiters = m
           /\ lims = [l \in 1..Cardinality(ks) |-> Construct(Custom)]
           /\ hist = [l \in 1..Cardinality(ks) |->
                        NewHist(CHOOSE k \in ks : m[k] = l)]
    /\ proc = [p \in Procs |-> Idle]
    /\ ops = 0
    /\ ctxDone = FALSE
    /\ crashed = FALSE
    /\ kind = "multi"
    /\ options = [k \in Keys |-> <<>>]
    /\ defaults = NoCfg

NextKeys ==
    \/ \E p \in TwoCallers : MultiKeys(p)
    \/ \E p \in TwoCallers : MultiKeysNext(p)
    \/ \E p \in TwoCallers, k \in Keys : MultiAdd(p, k, Custom)
    \/ \E p \in TwoCallers : MultiAddNew(p)
    \/ \E p \in TwoCallers : MultiAddLoadOrStore(p)
    \/ \E p \in TwoCallers, ks \in SUBSET Keys : MultiDelete(p, ks)
    \/ \E p \in TwoCallers : MultiDeleteNext(p)
    \/ \E p \in TwoCallers : MultiDeleteStop(p)

SpecKeys == InitKeys /\ [][NextKeys]_vars

\* ------------------------------------------- the MultiLimiter of a plain map
\* MultiLimiter.Add (keyratelimit.go): opts.Validate(), then the read
\* _, ok := m.limiters[opts.Key] begins.  limiters is a Go map, with no lock.
MapAdd(p, k, c) ==
    /\ CanCall(p) /\ kind = "map"
    /\ proc' = IF ~c.unl /\ (k = "" \/ IsZero(c.max) \/ c.dur = 0)
               THEN [proc EXCEPT ![p] = [Idle EXCEPT !.op = "Add", !.key = k,
                                                     !.res = "ValidationError"]]
               ELSE Call(p, "Add", k, c, "map_load")
    /\ ops' = ops + 1
    /\ UNCHANGED <<lims, hist, ctxDone, crashed, regVars>>

\* Add: the read of the map ends; if ok { return "key already exists" }.  With
\* a write of the map in progress the read is a data race: the runtime ends
\* the program (concurrent map read and map write), or the read finds the key
\* or not.
MapAddLoad(p) ==
    /\ ~crashed
    /\ proc[p].pc = "map_load"
    /\ IF \E q \in Procs \ {p} : proc[q].pc = "map_store"
       THEN \/ /\ crashed' = TRUE
               /\ proc' = Return(p, "Add", "panic")
            \/ /\ \E ok \in BOOLEAN :
                    proc' = IF ok THEN Return(p, "Add", "KeyAlreadyExists")
                            ELSE Goto(p, "map_new")
               /\ UNCHANGED crashed
       ELSE /\ proc' = IF limiters[proc[p].key] # 0
                       THEN Return(p, "Add", "KeyAlreadyExists")
                       ELSE Goto(p, "map_new")
            /\ UNCHANGED crashed
    /\ UNCHANGED <<lims, hist, ops, ctxDone, regVars>>

\* Add: the limiter is constructed, and the write
\* m.limiters[opts.Key] = rlimiter begins.
MapAddNew(p) ==
    /\ ~crashed
    /\ proc[p].pc = "map_new"
    /\ Len(lims) < MaxLimiters
    /\ lims' = Append(lims, Construct(proc[p].cfg))
    /\ hist' = Append(hist, NewHist(proc[p].key))
    /\ proc' = [proc EXCEPT ![p].pc = "map_store", ![p].lim = Len(lims) + 1]
    /\ UNCHANGED <<ops, ctxDone, crashed, regVars>>

\* Add: the write of the map ends; return nil.  With another write in
\* progress the runtime may end the program (concurrent map writes).
MapAddStore(p) ==
    /\ ~crashed
    /\ proc[p].pc = "map_store"
    /\ \/ /\ \E q \in Procs \ {p} : proc[q].pc = "map_store"
          /\ crashed' = TRUE
          /\ proc' = Return(p, "Add", "panic")
          /\ UNCHANGED limiters
       \/ /\ limiters' = [limiters EXCEPT ![proc[p].key] = proc[p].lim]
          /\ proc' = Return(p, "Add", "nil")
          /\ UNCHANGED crashed
    /\ UNCHANGED <<lims, hist, ops, ctxDone, kind, options, defaults>>

\* MultiLimiter.Take and GetLimit (keyratelimit.go): the call, and the read
\* limiter, ok := m.limiters[key] begins.
MapTake(p, k) ==
    /\ CanCall(p) /\ kind = "map"
    /\ proc' = Call(p, "Take", k, NoCfg, "map_get")
    /\ ops' = ops + 1
    /\ UNCHANGED <<lims, hist, ctxDone, crashed, regVars>>

MapGetLimit(p, k) ==
    /\ CanCall(p) /\ kind = "map"
    /\ proc' = Call(p, "GetLimit", k, NoCfg, "map_get")
    /\ ops' = ops + 1
    /\ UNCHANGED <<lims, hist, ctxDone, crashed, regVars>>

\* Take and GetLimit: the read of the map ends; if !ok || limiter == nil
\* { return "key doesnot exist" }, else limiter.Take() or limiter.GetLimit().
\* With a write of the map in progress the read is a data race: the runtime
\* ends the program, or the read misses the key, or it finds the limiter the
\* map holds or the one being written for the key.
MapGet(p) ==
    /\ ~crashed
    /\ proc[p].pc = "map_get"
    /\ LET k == proc[p].key
           found(l) == [proc EXCEPT ![p].pc = Use(proc[p].op), ![p].lim = l]
           missing == Return(p, proc[p].op, "KeyMissing")
           writers == {q \in Procs \ {p} : proc[q].pc = "map_store"}
       IN IF writers # {}
          THEN \/ /\ crashed' = TRUE
                  /\ proc' = Return(p, proc[p].op, "panic")
               \/ /\ proc' = missing
                  /\ UNCHANGED crashed
               \/ /\ \E l \in {limiters[k]} \cup
                              {proc[q].lim : q \in {w \in writers : proc[w].key = k}} :
                       l # 0 /\ proc' = found(l)
                  /\ UNCHANGED crashed
          ELSE /\ proc' = IF limiters[k] # 0 THEN found(limiters[k]) ELSE missing
               /\ UNCHANGED crashed
    /\ UNCHANGED <<lims, hist, ops, ctxDone, regVars>>

\* TestMultiLimiter: NewMultiLimiter(ctx, opts) with key "a", then goroutines
\* that call Take and GetLimit on the keys while Add is called.
InitMap ==
    /\ lims = <<Construct(Custom)>>
    /\ hist = <<NewHist("a")>>
    /\ proc = [p \in Procs |-> Idle]
    /\ ops = 0
    /\ ctxDone = FALSE
    /\ crashed = FALSE
    /\ kind = "map"
    /\ limiters = [k \in Keys |-> IF k = "a" THEN 1 ELSE 0]
    /\ options = [k \in Keys |-> <<>>]
    /\ defaults = NoCfg

NextMap ==
    \/ \E l \in Addrs : RunCheck(l)
    \/ \E l \in Addrs, p \in TwoCallers : RunSend(l, p)
    \/ \E l \in Addrs : RunDec(l)
    \/ \E p \in TwoCallers, k \in Keys, c \in {Custom, Unlimited} : MapAdd(p, k, c)
    \/ \E p \in TwoCallers : MapAddLoad(p)
    \/ \E p \in TwoCallers : MapAddNew(p)
    \/ \E p \in TwoCallers : MapAddStore(p)
    \/ \E p \in TwoCallers, k \in Keys : MapTake(p, k)
    \/ \E p \in TwoCallers, k \in Keys : MapGetLimit(p, k)
    \/ \E p \in TwoCallers : MapGet(p)
    \/ \E p \in TwoCallers : MultiGetLimitRead(p)

SpecMap == InitMap /\ [][NextMap]_vars

\* ------------------------------------------------------------------ claims

\* C1: a Windowed limiter that was not stopped and whose maxCount M >= 1 was
\* not changed lets at most M Take() calls return between two consecutive
\* resets of its counter, and between construction and the first reset.
C1_AtMostMaxCountPerWindow ==
    \A l \in Addrs :
        (/\ ~lims[l].cancelled /\ ~ctxDone
         /\ ~hist[l].limitSet
         /\ ~IsZero(lims[l].maxCount))
        => AtMost(hist[l].window, lims[l].maxCount)

\* C1's case: the window is used up (M = 2 Takes returned since the last
\* reset) and a further Take is waiting.
C1_Witness ==
    \E l \in Addrs, p \in Procs :
        /\ lims[l].maxCount = U32(2) /\ hist[l].window = 2
        /\ ~lims[l].cancelled /\ ~ctxDone /\ ~hist[l].limitSet
        /\ proc[p].pc = "take" /\ proc[p].lim = l

AutoProvisioning == {"Take", "CanTake", "Allow", "AllowN"}

\* C4: when two Add calls for the same key race on a registry that does not
\* hold the key, at most one of them succeeds.  The state excluded here is
\* the one where the only two calls made were one Add("a", ...) by each
\* caller and both returned nil.
C4_AtMostOneAddSucceeds ==
    ~(/\ ops = 2
      /\ \A p \in TwoCallers : /\ proc[p].pc = "idle"
                               /\ proc[p].op = "Add"
                               /\ proc[p].key = "a"
                               /\ proc[p].res = "nil")

\* C5: once no call is in progress, every limiter the registry constructed
\* and that was not stopped (its run goroutine goes on for as long as the
\* context lives) is the limiter stored under its key.
C5_OnlyLiveLimiterRuns ==
    (\A p \in Procs : proc[p].pc = "idle")
        => \A l \in Addrs : ~lims[l].cancelled => limiters[hist[l].key] = l

C7_AddOnStoppedKeyFails ==
    [][\A p \in OneCaller :
         (/\ proc[p].op = "Add" /\ proc[p].pc # "idle"
          /\ options[proc[p].key] # <<>> /\ limiters[proc[p].key] = 0)
            => /\ Len(lims') = Len(lims)
               /\ options' = options
               /\ proc'[p].pc = "idle" => proc'[p].res = "KeyAlreadyExists"]_vars

\* C8: on the AutoLimiter, Take, CanTake, Allow and AllowN never fail,
\* whatever the default options are: none of them ends in a panic or in
\* KeyMissing.
C8_AutoProvisioningNeverFails ==
    \A p \in OneCaller :
        (kind = "auto" /\ proc[p].op \in AutoProvisioning)
            => proc[p].res \notin {"panic", "KeyMissing"}

\* C9: when Take, CanTake, Allow or AllowN stores a limiter for a key whose
\* options are remembered, the new limiter is the one of these options:
\* their count as maxCount and as tokens left and their duration as interval
\* and ticker period, or, for unlimited options, the unlimited limiter; and
\* no step of such a call panics.
C9_RecreatedFromRemembered ==
    [][\A p \in OneCaller :
         (/\ proc[p].op \in AutoProvisioning /\ proc[p].pc # "idle"
          /\ options[proc[p].key] # <<>>)
            => /\ ~crashed'
               /\ (limiters[proc[p].key] = 0 /\ limiters'[proc[p].key] # 0)
                    => LET c == options[proc[p].key][1]
                           n == lims'[limiters'[proc[p].key]]
                       IN /\ limiters'[proc[p].key] = Len(lims')
                          /\ Len(lims') = Len(lims) + 1
                          /\ ~n.cancelled /\ ~n.tokensClosed
                          /\ IF c.unl
                             THEN /\ n.maxCount = MaxUint32
                                  /\ n.count = MaxUint32
                                  /\ n.period = Millisecond
                             ELSE /\ UintOf(n.maxCount) = c.max
                                  /\ UintOf(n.count) = c.max
                                  /\ n.interval = c.dur
                                  /\ n.period = c.dur]_vars

\* Add("a", Custom), Stop("a"), Take("a"): the Take got its permit from a
\* second limiter, which has the limit of Custom, while the first is stopped.
C9_Witness ==
    \E p \in OneCaller :
        /\ kind = "auto" /\ defaults # Custom
        /\ proc[p].pc = "idle" /\ proc[p].op = "Take" /\ proc[p].key = "a"
        /\ proc[p].res = "permit"
        /\ options["a"] = <<Custom>>
        /\ Len(lims) = 2 /\ limiters["a"] = 2
        /\ hist[1].key = "a" /\ lims[1].cancelled
        /\ lims[2].maxCount = U32(2) /\ lims[2].interval = 2
        /\ hist[2].handed = 1

\* C10: no step taken while a Stop of the AutoLimiter is in progress changes
\* the stored options, and when the Stop returns, each key it named (every
\* key when it named none) has no live limiter and every limiter made for
\* such a key is stopped.
C10_StopClearsLiveKeepsOptions ==
    [][\A p \in OneCaller :
         (kind = "auto" /\ proc[p].op = "Stop" /\ proc[p].pc # "idle")
            => /\ options' = options
               /\ proc'[p].pc = "idle"
                    => \A k \in (IF proc[p].keys = {} THEN Keys ELSE proc[p].keys) :
                          /\ limiters'[k] = 0
                          /\ \A l \in Addrs : hist[l].key = k => lims'[l].cancelled]_vars

\* Add("a", Custom), a Take or CanTake on "b", Stop(): both limiters are
\* stopped, no key is live and the options of "a" are still there.
C10_Witness ==
    \E p \in OneCaller :
        /\ kind = "auto"
        /\ proc[p].pc = "idle" /\ proc[p].op = "Stop" /\ proc[p].keys = {}
        /\ Len(lims) = 2 /\ hist[1].key # hist[2].key
        /\ \A l \in Addrs : lims[l].cancelled
        /\ \A k \in Keys : limiters[k] = 0
        /\ options["a"] = <<Custom>> /\ options["b"] = <<>>

\* C11: when a Remove of the AutoLimiter returns, its key has no live
\* limiter and no stored options and every limiter made for the key is
\* stopped; and the only step after which a key that had stored options has
\* none is the e.options.Delete(key) of a Remove of that key.
C11_RemoveForgetsKey ==
    [][/\ \A p \in OneCaller :
            (/\ kind = "auto" /\ proc[p].op = "Remove"
             /\ proc[p].pc # "idle" /\ proc'[p].pc = "idle")
               => /\ limiters'[proc[p].key] = 0
                  /\ options'[proc[p].key] = <<>>
                  /\ \A l \in Addrs :
                        hist[l].key = proc[p].key => lims'[l].cancelled
       /\ \A k \in Keys :
            (options[k] # <<>> /\ options'[k] = <<>>)
               => \E p \in OneCaller : /\ proc[p].op = "Remove"
                                       /\ proc[p].pc = "rm_opts"
                                       /\ proc[p].key = k]_vars

\* Add("a", Custom), Remove("a"): the limiter of the Add is stopped and the
\* key has neither limiter nor options.
C11_Witness ==
    \E p \in OneCaller :
        /\ kind = "auto" /\ ops = 2
        /\ proc[p].pc = "idle" /\ proc[p].op = "Remove" /\ proc[p].key = "a"
        /\ Len(lims) = 1 /\ hist[1].key = "a"
        /\ lims[1].maxCount = U32(2) /\ lims[1].cancelled
        /\ limiters["a"] = 0 /\ options["a"] = <<>>

\* The default options construct a limiter: unlimited, or a count and a
\* positive duration.
DefaultsConstruct == defaults.unl \/ (~IsZero(defaults.max) /\ defaults.dur > 0)

\* The key had a limiter and the latest one made for it was removed.
WasRemoved(k) ==
    /\ \E l \in Addrs : hist[l].key = k
    /\ \A l \in Addrs :
          (hist[l].key = k /\ \A j \in Addrs : hist[j].key = k => j <= l)
             => hist[l].removed

\* C12: after Add and then Remove (Delete in the MultiLimiter) of a key, a
\* Take of the key returns KeyMissing from the MultiLimiter; from an
\* AutoLimiter whose default options construct a limiter, it does not panic,
\* the limiter it stores has the count and the duration of the default options
\* (the unlimited limiter when they are unlimited), and it returns with a
\* permit.
C12_TakeAfterRemove ==
    [][\A p \in OneCaller :
         LET k == proc[p].key
         IN /\ (/\ kind = "multi" /\ proc[p].op = "Take" /\ proc[p].pc = "get"
                /\ proc'[p] # proc[p]
                /\ limiters[k] = 0 /\ \E l \in Addrs : hist[l].key = k)
                  => proc'[p].pc = "idle" /\ proc'[p].res = "KeyMissing"
            /\ (/\ kind = "auto" /\ proc[p].op = "Take" /\ proc[p].pc # "idle"
                /\ WasRemoved(k) /\ DefaultsConstruct)
                  => /\ ~crashed'
                     /\ proc'[p].pc = "idle" => proc'[p].res = "permit"
                     /\ (limiters[k] = 0 /\ limiters'[k] # 0)
                          => LET n == lims'[limiters'[k]]
                             IN /\ Len(lims') = Len(lims) + 1
                                /\ limiters'[k] = Len(lims')
                                /\ ~n.cancelled /\ ~n.tokensClosed
                                /\ IF defaults.unl
                                   THEN /\ n.maxCount = MaxUint32
                                        /\ n.count = MaxUint32
                                        /\ n.period = Millisecond
                                   ELSE /\ UintOf(n.maxCount) = defaults.max
                                        /\ UintOf(n.count) = defaults.max
                                        /\ n.interval = defaults.dur
                                        /\ n.period = defaults.dur]_vars

\* Add("a", Custom), Remove("a"), Take("a"): the Take got its permit from a
\* second limiter, which has the count of the default options, not of Custom.
C12_Witness ==
    \E p \in OneCaller :
        /\ kind = "auto" /\ ~defaults.unl
        /\ proc[p].pc = "idle" /\ proc[p].op = "Take" /\ proc[p].key = "a"
        /\ proc[p].res = "permit"
        /\ Len(lims) = 2 /\ limiters["a"] = 2 /\ options["a"] = <<>>
        /\ hist[1].key = "a" /\ hist[1].removed /\ lims[1].maxCount = U32(2)
        /\ lims[2].maxCount = U32(1) /\ lims[2].interval = 1
        /\ hist[2].handed = 1 /\ ~hist[2].removed

\* C13: on the MultiLimiter, the step at which Take, GetLimit or CanTake
\* looks up a key that has no limiter returns at once, with KeyMissing for
\* Take and GetLimit and false for CanTake, and constructs no limiter and
\* changes neither a limiter nor the map.
C13_StrictMissingKey ==
    [][\A p \in OneCaller :
         (/\ kind = "multi" /\ proc[p].op \in {"Take", "GetLimit", "CanTake"}
          /\ proc[p].pc # "idle" /\ proc'[p] # proc[p]
          /\ limiters[proc[p].key] = 0)
            => /\ proc'[p].pc = "idle"
               /\ proc'[p].res = IF proc[p].op = "CanTake" THEN "false"
                                 ELSE "KeyMissing"
               /\ lims' = lims
               /\ limiters' = limiters]_vars

\* Add("a", ...), then GetLimit("b"): KeyMissing, and "a" is the only key.
C13_Witness ==
    \E p \in OneCaller :
        /\ kind = "multi"
        /\ proc[p].pc = "idle" /\ proc[p].op = "GetLimit" /\ proc[p].key = "b"
        /\ proc[p].res = "KeyMissing"
        /\ Len(lims) = 1 /\ limiters["a"] = 1 /\ limiters["b"] = 0

\* C14: an AddAndTake whose key has a live limiter goes on to Take from that
\* limiter; from then on it changes, at none of its steps, the map, the
\* stored options or the limiter's maxCount and interval, and it returns with
\* one permit handed out by that limiter.  An
\* AddAndTake on a key with neither limiter nor stored options returns the
\* validation error of Add for options Add rejects; otherwise it returns with
\* a permit, the first one of a limiter that is now the key's limiter and was
\* constructed from its options, which the AutoLimiter now has stored for
\* the key.
C14_AddAndTake ==
    [][\A p \in OneCaller :
         LET k == proc[p].key
             c == proc[p].cfg
             l == proc[p].lim
         IN (proc[p].op = "AddAndTake" /\ proc[p].pc # "idle" /\ proc'[p] # proc[p])
              => /\ (proc[p].pc \in {"aat_get", "maat_get"} /\ limiters[k] # 0)
                    => /\ proc'[p].pc = "take" /\ proc'[p].n = 1
                       /\ proc'[p].lim = limiters[k]
                       /\ limiters' = limiters /\ options' = options
                       /\ lims' = lims
                 /\ proc[p].n = 1
                    => /\ limiters' = limiters /\ options' = options
                       /\ Len(lims') = Len(lims)
                       /\ lims'[l].maxCount = lims[l].maxCount
                       /\ lims'[l].interval = lims[l].interval
                       /\ lims'[l].period = lims[l].period
                       /\ proc'[p].pc = "idle"
                            => /\ proc'[p].res = "permit"
                               /\ limiters[k] = l
                               /\ hist'[l].handed = hist[l].handed + 1
                 /\ (/\ proc[p].pc \in {"aat_get", "maat_get"}
                     /\ limiters[k] = 0 /\ options[k] = <<>>
                     /\ IF kind = "auto" THEN AutoInvalid(k, c) ELSE MultiInvalid(k, c))
                       => /\ proc'[p].pc = "idle"
                          /\ proc'[p].res = "ValidationError"
                          /\ limiters' = limiters /\ options' = options /\ lims' = lims
                 /\ (proc[p].n = 0 /\ proc[p].pc = "take")
                       => /\ proc'[p].res = "permit"
                          /\ limiters'[k] = l
                          /\ hist'[l].handed = 1
                          /\ IF c.unl
                             THEN /\ lims'[l].maxCount = MaxUint32
                                  /\ lims'[l].period = Millisecond
                             ELSE /\ UintOf(lims'[l].maxCount) = c.max
                                  /\ lims'[l].interval = c.dur
                                  /\ lims'[l].period = c.dur
                          /\ kind = "auto" => options'[k] = <<c>>]_vars

\* Add("a", unlimited), then AddAndTake("a", Custom): the permit came from
\* the unlimited limiter, and the stored options are still the unlimited ones.
C14_Witness ==
    \E p \in OneCaller :
        /\ kind = "auto"
        /\ proc[p].pc = "idle" /\ proc[p].op = "AddAndTake" /\ proc[p].key = "a"
        /\ proc[p].res = "permit"
        /\ Len(lims) = 1 /\ limiters["a"] = 1
        /\ lims[1].maxCount = MaxUint32 /\ hist[1].handed = 1
        /\ options["a"] = <<Unlimited>>

\* C15: an AllowN(key, n) that returns while the run goroutine of the key's
\* limiter is not between a hand-out and its decrement (so that count is the
\* number of permits left) returns true exactly when n is at most count.
C15_AllowNCountsPermits ==
    [][\A p \in OneCaller :
         (/\ proc[p].op = "AllowN" /\ proc[p].pc = "allown"
          /\ proc'[p].pc = "idle"
          /\ lims[proc[p].lim].run # "dec")
            => (proc'[p].res = "true"
                  <=> AtMost(proc[p].n, lims[proc[p].lim].count))]_vars

\* C16: on a fresh limiter with maxCount M, run does not wait for the ticker
\* before M Takes have returned, and the Take that returns as number M + 1
\* returns in a window the counter was reset for and at least one interval
\* after the first Take was called.
C16_BurstThenFullInterval ==
    [][LET M == lims[1].maxCount.lo
       IN /\ lims[1].run = "wait" => hist[1].completed >= M
          /\ (hist[1].completed = M /\ hist'[1].completed = M + 1)
               => /\ hist'[1].window <= M
                  /\ lims[1].clock - hist[1].first >= lims[1].interval]_vars

\* C17: for every k >= 1, the Take that returns as number k*M + 1 returns at
\* least k intervals after the first Take was called, whenever that was.
C17_TakesPerInterval ==
    [][LET M == lims[1].maxCount.lo
       IN \A k \in 1..MaxOps :
            (hist[1].completed = k * M /\ hist'[1].completed = k * M + 1)
               => lims[1].clock - hist[1].first >= k * lims[1].interval]_vars

\* C18: on a Windowed limiter with maxCount >= 1 that is never stopped or
\* cancelled, whose ticker keeps firing, under fair scheduling, every Take()
\* call eventually returns, the calls beyond maxCount included.
C18_EveryTakeReturns ==
    \A p \in Procs : (proc[p].pc = "take") ~> (proc[p].pc # "take")

\* C18's case: more Takes than maxCount have returned with a permit, the last
\* one after a reset of the counter.
C18_Witness ==
    /\ hist[1].completed > lims[1].maxCount.lo
    /\ hist[1].completed = hist[1].handed
    /\ \E p \in Procs : proc[p].op = "Take" /\ proc[p].res = "permit"

\* The callers blocked in a Take of limiter l.
Waiting(l) == {p \in Procs : proc[p].pc \in {"take", "sleep"} /\ proc[p].lim = l}

\* C19: a CanTake() call on a limiter of either strategy returns at once with
\* true or false and changes nothing of the limiter: not its remaining-permit
\* counter, maxCount or interval, not the set of callers waiting in Take, not
\* the Takes completed.
C19_CanTakeChangesNothing ==
    [][\A p \in Procs :
         (proc[p].pc = "idle" /\ proc'[p] # proc[p] /\ proc'[p].op = "CanTake")
         => /\ proc'[p].pc = "idle"
            /\ proc'[p].res \in {"true", "false"}
            /\ lims' = lims
            /\ hist' = hist
            /\ \A l \in Addrs : Waiting(l)' = Waiting(l)]_vars

\* C19's case: the Windowed limiter is out of permits, one caller is blocked
\* in its Take and the other's CanTake has returned false; nothing was asked
\* of the other limiter.
C19_Witness ==
    \E p, q \in Procs :
        /\ proc[p].op = "CanTake" /\ proc[p].res = "false"
        /\ proc[q].pc = "take"
        /\ IsZero(lims[1].count)
        /\ lims[2].bucket = lims[2].burst

\* Caller p is the limiter's only user so far, the limiter came from New with
\* maxCount >= 1 and was neither stopped nor reconfigured, and its counter was
\* not reset since its first Take returned.
SingleCallerNoRefill(p) ==
    /\ \A q \in Procs \ {p} : proc[q].op = "none"
    /\ ~lims[1].cancelled /\ ~ctxDone /\ ~crashed
    /\ ~hist[1].limitSet
    /\ lims[1].interval > 0
    /\ ~IsZero(lims[1].maxCount)
    /\ hist[1].completed = hist[1].window

\* C20: on a Windowed limiter with maxCount M >= 1 used by a single caller,
\* with no refill in between, a CanTake() call returns true when fewer than M
\* Take() calls have returned and false when the M-th has returned, wherever
\* the run goroutine stands.
C20_CanTakeTracksTakes ==
    [][\A p \in Procs :
         (/\ proc[p].pc = "idle" /\ proc'[p] # proc[p]
          /\ proc'[p].op = "CanTake"
          /\ SingleCallerNoRefill(p))
         => (proc'[p].res = "true" <=> AtMost(hist[1].completed + 1, lims[1].maxCount))]_vars

\* What a LeakyBucket limiter holds, in units of 1/interval of a token.
Level(lim) == lim.bucket * lim.interval + lim.frac

\* C21: a LeakyBucket limiter never holds more than maxCount permits (after
\* SetLimit(n): n), and in every unit of time it accrues maxCount/interval of
\* a permit (after SetDuration(d): maxCount/d), up to that cap.
C21_LeakyAccrual ==
    [][/\ lims'[1].burst = lims'[1].maxCount.lo
       /\ lims'[1].bucket <= lims'[1].burst
       /\ lims'[1].clock = lims[1].clock + 1
            => Level(lims'[1]) = Min(lims[1].burst * lims[1].interval,
                                     Level(lims[1]) + lims[1].maxCount.lo)]_vars

\* Limiter l exists and its run goroutine was told to stop: Stop() was called
\* on it, or the context given to the registry was cancelled.
ToldToStop(l) == l \in Addrs /\ (lims[l].cancelled \/ ctxDone)

\* C22: once Stop() was called on a limiter, or the context passed to the
\* registry was cancelled, the run goroutine of that limiter (of every limiter
\* of the registry) terminates, with the counter at 0 and with Take callers
\* waiting too.
C22_RunTerminates ==
    \A l \in 1..MaxLimiters :
        ToldToStop(l) ~> (l \in Addrs /\ lims[l].run = "done")

\* C22's case: the context was cancelled, not Stop called; the limiter had
\* handed out its one permit, its run goroutine has returned and the caller's
\* second Take came back from the closed channel.
C22_Witness ==
    /\ ctxDone
    /\ \E l \in Addrs : /\ ~lims[l].cancelled /\ lims[l].run = "done"
                         /\ hist[l].handed = 1 /\ hist[l].completed = 2
    /\ \E p \in Procs : proc[p].op = "Take" /\ proc[p].res = "closed"

\* C23: an unlimited limiter (maxCount 2^32 - 1, never changed) has its
\* counter at the ceiling less the permits handed out, at most, so through
\* 1000 consecutive Takes at least 1000 permits remain and run never waits
\* for the ticker.
C23_UnlimitedNeverWaits ==
    \A l \in Addrs :
        (lims[l].maxCount = MaxUint32 /\ ~hist[l].limitSet)
        => /\ lims[l].count.hi = Half - 1
           /\ lims[l].count.lo >= Half - 1 - hist[l].decs
           /\ hist[l].decs <= hist[l].handed
           /\ AtMost(UnlimitedTakes, lims[l].count)
           /\ lims[l].run \notin {"wait", "storeW"}

\* C23's case: 1000 Takes have returned with a permit each and no tick has
\* fired; the counter is 1000 below the ceiling.
C23_Witness ==
    /\ hist[1].completed = UnlimitedTakes /\ hist[1].handed = UnlimitedTakes
    /\ hist[1].decs = UnlimitedTakes
    /\ lims[1].count = [hi |-> Half - 1, lo |-> Half - 1 - UnlimitedTakes]
    /\ \E p \in Procs : proc[p].op = "Take" /\ proc[p].res = "permit"

\* The configurations Add is to reject: not unlimited, and an empty key, a
\* zero maxCount or an interval that is not positive.
Rejected(k, c) == ~c.unl /\ (k = "" \/ IsZero(c.max) \/ c.dur <= 0)

\* C24: an Add call either returns ValidationError in the step of the call,
\* with no limiter constructed and both maps as they were, or goes on with a
\* configuration that is not to be rejected.
C24_InvalidAddRejected ==
    [][\A p \in OneCaller :
         (proc[p].pc = "idle" /\ ops' = ops + 1 /\ proc'[p].op = "Add")
         => /\ proc'[p].pc = "idle"
                => /\ proc'[p].res = "ValidationError"
                   /\ lims' = lims /\ limiters' = limiters /\ options' = options
            /\ proc'[p].pc # "idle" => ~Rejected(proc'[p].key, proc'[p].cfg)]_vars

\* The keys a call names: those given to Stop or Delete, the one given to any
\* other call.
Named(call) == IF call.op \in {"Stop", "Delete"} THEN call.keys ELSE {call.key}

C26_NoHandOutAtZero ==
    [][\A l \in Addrs :
         /\ hist'[l].handed # hist[l].handed => ~IsZero(lims[l].count)
         /\ hist'[l].decs # hist[l].decs => ~IsZero(lims[l].count)]_vars

\* The permits handed out so far by the limiters 1..n constructed for key k.
RECURSIVE HandedFor(_, _)
HandedFor(k, n) ==
    IF n = 0 THEN 0
    ELSE HandedFor(k, n - 1) + (IF hist[n].key = k THEN hist[n].handed ELSE 0)

\* C27: on an AutoLimiter whose default is M >= 1 permits per interval, as
\* long as nothing but Take, CanTake, Allow and AllowN was called (no Add: no
\* options stored; no Stop or Remove: no limiter stopped) and no refill has
\* happened, the Takes of a key that returned with a permit are at most M,
\* however the callers race.
C27_RacingTakesShareOneLimiter ==
    (/\ kind = "auto" /\ ~defaults.unl /\ ~IsZero(defaults.max)
     /\ ~crashed /\ ~ctxDone
     /\ \A k \in Keys : options[k] = <<>>
     /\ \A l \in Addrs : ~lims[l].cancelled)
    => \A k \in OneKey : HandedFor(k, Len(lims)) <= defaults.max.lo

\* run stores the counter: the refill.
Refill(l) == lims[l].run \in {"storeW", "storeS"} /\ lims'[l].run # lims[l].run

\* C28: SetLimit(n) leaves the remaining counter as it is; a GetLimit() after
\* it returns n; the next refill makes the counter n, and until then the
\* counter changes by the decrement of a hand-out only.
C28_SetLimitAtNextRefill ==
    [][\A p \in OneCaller :
         /\ (proc[p].pc = "idle" /\ ops' = ops + 1 /\ proc'[p].op = "SetLimit")
              => lims'[1].count = lims[1].count
         /\ (proc[p].pc = "idle" /\ ops' = ops + 1 /\ proc'[p].op = "GetLimit"
             /\ hist[1].limitSet)
              => proc'[p].cfg.max = hist[1].limit
         /\ (hist[1].limitSet /\ Refill(1))
              => UintOf(lims'[1].count) = hist[1].limit
         /\ (lims'[1].count # lims[1].count /\ ~Refill(1))
              => lims'[1].count = AddMinusOne(lims[1].count)]_vars

\* a <= b for two uint32.
Leq32(a, b) == a.hi < b.hi \/ (a.hi = b.hi /\ a.lo <= b.lo)

\* C29: on a Windowed limiter whose maxCount was never changed, every refill
\* makes the counter exactly maxCount, and the counter is never above
\* maxCount.
C29_CounterWithinMaxCount ==
    [][\A l \in Addrs :
         ~hist'[l].limitSet
         => /\ Refill(l) => lims'[l].count = lims[l].maxCount
            /\ Leq32(lims'[l].count, lims'[l].maxCount)]_vars

\* C30: SetDuration(d) on a Windowed limiter leaves the tick that is
\* scheduled where it is and makes d the period of the ticks after it.
C30_SetDurationKeepsNextTick ==
    [][\A p \in OneCaller :
         (proc[p].pc = "idle" /\ ops' = ops + 1 /\ proc'[p].op = "SetDuration")
         => /\ lims'[1].nextTick = lims[1].nextTick
            /\ lims'[1].period = lims'[1].interval]_vars

\* MultiLimiter.Exists(key): _, ok := m.limiters.Load(key)
MultiExists(k) == limiters[k] # 0

\* C31: on the MultiLimiter, when Stop returns, no key it stopped (the keys
\* named, or the keys it visited when none is named) has a limiter in the
\* map, and a Take that then looks up a key whose limiter was stopped returns
\* KeyMissing.
C31_StopClearsStrictKey ==
    [][\A p \in OneCaller :
         kind = "multi" =>
           /\ (proc[p].op = "Stop" /\ proc[p].pc = "mstop_next" /\ proc'[p].pc = "idle")
                => \A k \in (IF proc[p].keys = {} THEN proc[p].todo ELSE proc[p].keys) :
                     ~MultiExists(k)'
           /\ (/\ proc[p].op = "Take" /\ proc[p].pc = "get" /\ proc'[p] # proc[p]
               /\ MultiExists(proc[p].key)
               /\ lims[limiters[proc[p].key]].cancelled)
                => proc'[p].pc = "idle" /\ proc'[p].res = "KeyMissing"]_vars

\* C32: when callers race in AddAndTake on a key that was unregistered, with
\* options Add accepts, every AddAndTake that has returned returned with a
\* permit (none with KeyAlreadyExists), at most one limiter was constructed,
\* and a caller waiting for its permit waits on the limiter the key maps to.
C32_RacingAddAndTake ==
    /\ Len(lims) <= 1
    /\ \A p \in TwoCallers :
         /\ (proc[p].op = "AddAndTake" /\ proc[p].pc = "idle")
              => proc[p].res = "permit"
         /\ (proc[p].op = "AddAndTake" /\ proc[p].pc = "take")
              => proc[p].lim = limiters[proc[p].key]

\* C33: no step of Take, CanTake, Allow or AllowN on the AutoLimiter changes
\* the stored options of any key.  When such a call constructs a limiter for
\* a key that has had limiters, none of them removed, and has no stored
\* options (a key known through auto-provisioning only), it does not panic
\* and the limiter it stores for the key is the one the default options
\* construct.
C33_AutoProvisioningKeepsOptions ==
    [][\A p \in OneCaller :
         LET k == proc[p].key
         IN (/\ kind = "auto" /\ proc[p].op \in AutoProvisioning
             /\ proc[p].pc # "idle" /\ proc'[p] # proc[p])
              => /\ options' = options
                 /\ (/\ proc[p].pc \in {"cod_new", "rec_new"}
                     /\ options[k] = <<>>
                     /\ \E l \in Addrs : hist[l].key = k
                     /\ \A l \in Addrs : hist[l].key = k => ~hist[l].removed)
                      => /\ ~crashed'
                         /\ Len(lims') = Len(lims) + 1
                         /\ limiters'[k] = Len(lims')
                         /\ lims'[Len(lims')] = Construct(defaults)]_vars

\* Take("a"), Stop("a"), Take("a") with a default of one permit per interval:
\* the second Take got its permit from a second limiter, made from the
\* defaults, and "a" has no stored options.
C33_Witness ==
    \E p \in OneCaller :
        /\ kind = "auto" /\ ~defaults.unl /\ ops = 3
        /\ proc[p].pc = "idle" /\ proc[p].op = "Take" /\ proc[p].key = "a"
        /\ proc[p].res = "permit"
        /\ Len(lims) = 2 /\ hist[1].key = "a" /\ hist[2].key = "a"
        /\ lims[1].cancelled /\ hist[1].handed = 1 /\ hist[2].handed = 1
        /\ limiters["a"] = 2 /\ options["a"] = <<>>
        /\ UintOf(lims[2].maxCount) = defaults.max
        /\ lims[2].interval = defaults.dur

\* C34: CanTake on a LeakyBucket limiter returns true exactly when the
\* limiter holds at least one whole token, and false below that, a part of a
\* token included.
C34_LeakyCanTakeWholeToken ==
    [][\A p \in Procs :
         (proc[p].pc = "idle" /\ proc'[p] # proc[p] /\ proc'[p].op = "CanTake")
         => (proc'[p].res = "true" <=> lims[1].bucket >= 1)]_vars

\* C35: Keys on the MultiLimiter changes neither the map nor a limiter, and
\* the keys it returns are the keys the map held at some moment between the
\* call and the return, whatever Add and Delete do meanwhile.
C35_KeysIsSnapshot ==
    [][\A p \in TwoCallers :
         (proc[p].op = "Keys" /\ proc[p].pc = "keys_next" /\ proc'[p].todo # proc[p].todo)
         => /\ limiters' = limiters /\ lims' = lims
            /\ proc'[p].pc = "idle" => proc'[p].keys \in proc[p].seen]_vars

\* C36: on the MultiLimiter of keyratelimit.go, no read of the map by Take or
\* GetLimit is in progress while a write of the map by Add is in progress, and
\* the runtime never ends the program for concurrent map access.
C36_NoConcurrentMapReadAndWrite ==
    /\ ~crashed
    /\ \A p \in TwoCallers, q \in TwoCallers :
         ~(proc[p].pc = "map_get" /\ proc[q].pc = "map_store")
====
